---- MODULE Spec2Model ----
(***************************************************************************)
(* Schema Form Builder (src/app.js, module A): the schema engine           *)
(* (resolver, type inferencer, default synthesizer, validator, path        *)
(* model, serializer) and the editor session around it (file loads,        *)
(* schema selection, variant pickers, field edits, debounced recompute).   *)
(*                                                                         *)
(* JSON values are tagged records [t, v]:                                  *)
(*   undefined  [t |-> "undef", v |-> 0]                                   *)
(*   null       [t |-> "null",  v |-> 0]                                   *)
(*   boolean    [t |-> "bool",  v |-> TRUE]                                *)
(*   number     [t |-> "num",   v |-> 1]        (integers only)            *)
(*   string     [t |-> "str",   v |-> "a"]                                 *)
(*   object     [t |-> "obj",   v |-> <<[k |-> key, v |-> value], ...>>]   *)
(*              entries in insertion order, as Object.entries yields them  *)
(*   array      [t |-> "arr",   v |-> <<value, ...>>, x |-> <<entry,...>>] *)
(*   function   [t |-> "fn",    v |-> name]     (an inherited member)      *)
(*              v the elements (an element [t |-> "hole"] is an empty      *)
(*              slot), x the non-index properties set on the array object  *)
(* A path is a sequence of tokens; a token is a string, an array index i   *)
(* being the string ToString(i) (JavaScript reads cur[0] and cur["0"]      *)
(* alike, and pathKey maps every token through String).                    *)
(***************************************************************************)
EXTENDS Integers, Sequences, FiniteSets, TLC

(* ------------------------------ JSON values ---------------------------- *)

Undef == [t |-> "undef", v |-> 0]
JNull == [t |-> "null", v |-> 0]
Hole == [t |-> "hole", v |-> 0]
JBool(b) == [t |-> "bool", v |-> b]
JNum(n) == [t |-> "num", v |-> n]
JStr(s) == [t |-> "str", v |-> s]
JObj(entries) == [t |-> "obj", v |-> entries]
JArr(items) == [t |-> "arr", v |-> items, x |-> <<>>]
E(k, v) == [k |-> k, v |-> v]
EmptyObj == JObj(<<>>)

\* x == null
IsNullish(j) == j.t \in {"undef", "null"}
\* typeof x === "object" && x != null
IsObjectLike(j) == j.t \in {"obj", "arr"}
\* Array.isArray(x)
IsArray(j) == j.t = "arr"
\* ToBoolean(x)
Truthy(j) ==
  CASE j.t \in {"undef", "null", "hole"} -> FALSE
    [] j.t = "bool" -> j.v
    [] j.t = "num" -> j.v # 0
    [] j.t = "str" -> j.v # ""
    [] OTHER -> TRUE

\* x ?? y
Coalesce(x, y) == IF IsNullish(x) THEN y ELSE x

SeqToSet(s) == {s[i] : i \in DOMAIN s}
Keys(entries) == [i \in DOMAIN entries |-> entries[i].k]
HasKey(entries, k) == \E i \in DOMAIN entries : entries[i].k = k
Lookup(entries, k) ==
  IF HasKey(entries, k)
  THEN entries[CHOOSE i \in DOMAIN entries : entries[i].k = k].v
  ELSE Undef
\* entries[k] = v: an existing key keeps its place, a new key is appended
Assign(entries, k, v) ==
  IF HasKey(entries, k)
  THEN [i \in DOMAIN entries |-> IF entries[i].k = k THEN E(k, v) ELSE entries[i]]
  ELSE Append(entries, E(k, v))
\* delete entries[k]
Remove(entries, k) == SelectSeq(entries, LAMBDA e : e.k # k)

\* The array index a token denotes, -1 when it is no index of the model.
MaxIndex == 4
TokenIndex(tok) ==
  IF \E i \in 0..MaxIndex : ToString(i) = tok
  THEN CHOOSE i \in 0..MaxIndex : ToString(i) = tok
  ELSE -1

\* The characters of a string, for the strings a value tree of the model holds.
Chars(s) ==
  CASE s = "" -> <<>>
    [] s \in {"a", "b"} -> <<s>>

\* A property read that finds no own property goes up the prototype chain:
\* every value that is neither null nor undefined inherits the members of
\* Object.prototype, which are functions. Of these the schema documents and
\* the prompts of the model name "constructor" only.
InheritedKeys == {"constructor"}
Fn(name) == [t |-> "fn", v |-> name]
Inherited(p) == IF p \in InheritedKeys THEN Fn(p) ELSE Undef

\* cur[p], for cur neither null nor undefined
GetProp(cur, p) ==
  CASE cur.t = "obj" -> IF HasKey(cur.v, p) THEN Lookup(cur.v, p) ELSE Inherited(p)
    [] cur.t = "arr" ->
         LET i == TokenIndex(p) IN
         IF i >= 0
         THEN IF i < Len(cur.v) /\ cur.v[i + 1].t # "hole" THEN cur.v[i + 1] ELSE Undef
         ELSE IF p = "length" THEN JNum(Len(cur.v))
         ELSE IF HasKey(cur.x, p) THEN Lookup(cur.x, p) ELSE Inherited(p)
    [] cur.t = "str" ->
         LET i == TokenIndex(p) IN
         IF i >= 0
         THEN IF i < Len(Chars(cur.v)) THEN JStr(Chars(cur.v)[i + 1]) ELSE Undef
         ELSE IF p = "length" THEN JNum(Len(Chars(cur.v))) ELSE Inherited(p)
    [] cur.t \in {"num", "bool"} -> Inherited(p)

\* cur[p] = v, for cur an object or an array
SetProp(cur, p, v) ==
  IF cur.t = "obj" THEN JObj(Assign(cur.v, p, v))
  ELSE LET i == TokenIndex(p) IN
       IF i >= 0
       THEN [cur EXCEPT !.v = [j \in 1..(IF i < Len(cur.v) THEN Len(cur.v) ELSE i + 1) |->
                                 IF j = i + 1 THEN v
                                 ELSE IF j <= Len(cur.v) THEN cur.v[j] ELSE Hole]]
       ELSE [cur EXCEPT !.x = Assign(cur.x, p, v)]

\* delete cur[p], for cur an object or an array
DeleteProp(cur, p) ==
  IF cur.t = "obj" THEN JObj(Remove(cur.v, p))
  ELSE LET i == TokenIndex(p) IN
       IF i >= 0
       THEN IF i < Len(cur.v) THEN [cur EXCEPT !.v[i + 1] = Hole] ELSE cur
       ELSE [cur EXCEPT !.x = Remove(cur.x, p)]

(* ------------------------------- PathModel ----------------------------- *)

\* path.map(String).join("/")
RECURSIVE pathKey(_)
pathKey(path) ==
  IF path = <<>> THEN ""
  ELSE IF Len(path) = 1 THEN path[1]
  ELSE path[1] \o "/" \o pathKey(Tail(path))

RECURSIVE deepGet(_, _)
deepGet(obj, path) ==
  IF path = <<>> THEN obj
  ELSE IF IsNullish(obj) THEN Undef
  ELSE deepGet(GetProp(obj, Head(path)), Tail(path))

\* The loop and the final assignment of deepSet below a container cur. The
\* last token of an empty path is path[-1], undefined, hence the key "undefined".
RECURSIVE deepSetIn(_, _, _)
deepSetIn(cur, path, value) ==
  IF path = <<>> THEN SetProp(cur, "undefined", value)
  ELSE IF Len(path) = 1 THEN SetProp(cur, path[1], value)
  ELSE LET child == GetProp(cur, Head(path)) IN
       IF IsObjectLike(child)
       THEN SetProp(cur, Head(path), deepSetIn(child, Tail(path), value))
       ELSE SetProp(cur, Head(path), deepSetIn(EmptyObj, Tail(path), value))

\* deepSet(obj, path, value): obj as the call leaves it, and whether the call
\* returned (ok) or threw: in strict mode a property write on a primitive
\* throws, as does any property access on null or undefined.
deepSet(obj, path, value) ==
  IF IsObjectLike(obj)
  THEN [ok |-> TRUE, val |-> deepSetIn(obj, path, value)]
  ELSE [ok |-> FALSE, val |-> obj]

deepDelete(obj, path) ==
  IF path = <<>> THEN obj
  ELSE LET parent == deepGet(obj, SubSeq(path, 1, Len(path) - 1)) IN
       IF IsObjectLike(parent)
       THEN IF Len(path) = 1 THEN DeleteProp(obj, path[1])
            ELSE deepSetIn(obj, SubSeq(path, 1, Len(path) - 1),
                           DeleteProp(parent, path[Len(path)]))
       ELSE obj

(* ----------------------------- JS conversions -------------------------- *)

\* Object.entries(x)
Entries(j) ==
  CASE j.t = "obj" -> j.v
    [] j.t = "arr" ->
         SelectSeq([i \in DOMAIN j.v |-> E(ToString(i - 1), j.v[i])],
                   LAMBDA e : e.v.t # "hole") \o j.x
    [] j.t = "str" -> [i \in DOMAIN Chars(j.v) |-> E(ToString(i - 1), JStr(Chars(j.v)[i]))]
    [] j.t \in {"num", "bool", "fn"} -> <<>>

\* { ...a, ...b }
Spread2(a, b) ==
  LET RECURSIVE put(_, _)
      put(acc, es) == IF es = <<>> THEN acc
                      ELSE put(Assign(acc, Head(es).k, Head(es).v), Tail(es))
      ents(j) == IF IsNullish(j) THEN <<>> ELSE Entries(j)
  IN JObj(put(ents(a), ents(b)))

\* [...x], for x an array: an empty slot reads as undefined
Iterate(j) ==
  CASE j.t = "arr" -> [i \in DOMAIN j.v |-> IF j.v[i].t = "hole" THEN Undef ELSE j.v[i]]
    [] j.t = "str" -> [i \in DOMAIN Chars(j.v) |-> JStr(Chars(j.v)[i])]

\* x.length of an array, 0 where Array.isArray(x) fails
ArrLen(j) == IF IsArray(j) THEN Len(j.v) ELSE 0

\* Array.isArray(x) && x.length
NonEmptyArray(j) == IsArray(j) /\ Len(j.v) > 0

\* String(x) as Array.prototype.join and template literals apply it
RECURSIVE ToStr(_)
ToStr(j) ==
  CASE j.t = "str" -> j.v
    [] j.t = "num" -> ToString(j.v)
    [] j.t = "bool" -> IF j.v THEN "true" ELSE "false"
    [] j.t = "null" -> "null"
    [] j.t \in {"undef", "hole"} -> "undefined"
    [] j.t = "obj" -> "[object Object]"
    [] j.t = "arr" ->
         LET RECURSIVE join(_)
             join(items) ==
               IF items = <<>> THEN ""
               ELSE (IF Head(items).t \in {"undef", "hole", "null"} THEN ""
                     ELSE ToStr(Head(items)))
                    \o (IF Len(items) > 1 THEN "," \o join(Tail(items)) ELSE "")
         IN join(j.v)

\* arr.join(sep)
RECURSIVE Join(_, _)
Join(items, sep) ==
  IF items = <<>> THEN ""
  ELSE (IF Head(items).t \in {"undef", "hole", "null"} THEN "" ELSE ToStr(Head(items)))
       \o (IF Len(items) > 1 THEN sep \o Join(Tail(items), sep) ELSE "")

\* ToNumber(x) as the relational operators apply it: [nan, n]
RECURSIVE ToNum(_)
ToNum(j) ==
  CASE j.t = "num" -> [nan |-> FALSE, n |-> j.v]
    [] j.t = "bool" -> [nan |-> FALSE, n |-> IF j.v THEN 1 ELSE 0]
    [] j.t = "null" -> [nan |-> FALSE, n |-> 0]
    [] j.t \in {"undef", "hole"} -> [nan |-> TRUE, n |-> 0]
    [] j.t = "str" -> IF j.v = "" THEN [nan |-> FALSE, n |-> 0] ELSE [nan |-> TRUE, n |-> 0]
    [] j.t = "obj" -> [nan |-> TRUE, n |-> 0]
    [] j.t = "arr" ->
         IF Len(j.v) = 0 THEN [nan |-> FALSE, n |-> 0]
         ELSE IF Len(j.v) > 1 THEN [nan |-> TRUE, n |-> 0]
         ELSE IF j.v[1].t \in {"undef", "hole", "null"} THEN [nan |-> FALSE, n |-> 0]
         ELSE IF j.v[1].t = "bool" THEN [nan |-> TRUE, n |-> 0]
         ELSE ToNum(j.v[1])

\* a < b
JsLess(a, b) == ~ToNum(a).nan /\ ~ToNum(b).nan /\ ToNum(a).n < ToNum(b).n

\* arr.includes(x): SameValueZero, an object being equal to itself only, and a
\* value of the tree never being the very object a schema literal is
Includes(arr, x) ==
  \E i \in DOMAIN arr.v :
     LET e == IF arr.v[i].t = "hole" THEN Undef ELSE arr.v[i] IN
     ~IsObjectLike(e) /\ e = x

\* Math.max(0, Math.min(idx, n - 1))
Clamp(idx, n) == IF idx > n - 1 THEN (IF n - 1 < 0 THEN 0 ELSE n - 1)
                 ELSE IF idx < 0 THEN 0 ELSE idx

(* ----------------------------- SchemaResolver -------------------------- *)

\* pointer.startsWith("#/"), and the segments of
\*   (pointer.startsWith("#") ? pointer.slice(1) : pointer).split("/")
\*       .filter(Boolean).map(s => s.replace(/~1/g, "/").replace(/~0/g, "~"))
\* for the pointers the schema documents of the model hold.
PointerStartsWithHashSlash(pointer) ==
  CASE pointer \in {"#/defs/x", "#/defs/missing", "#/defs/a~1b", "#//defs//x", "#/defs/n",
                    "#/defs/o", "#/defs/p", "#/defs/chain", "#/title/length"} -> TRUE
    [] pointer \in {"#", "other.json#/defs/x", "defs/x"} -> FALSE
PointerParts(pointer) ==
  CASE pointer = "#/defs/x" -> <<"defs", "x">>
    [] pointer = "#//defs//x" -> <<"defs", "x">>
    [] pointer = "defs/x" -> <<"defs", "x">>
    [] pointer = "#/defs/missing" -> <<"defs", "missing">>
    [] pointer = "#/defs/a~1b" -> <<"defs", "a/b">>
    [] pointer = "#/defs/n" -> <<"defs", "n">>
    [] pointer = "#/defs/o" -> <<"defs", "o">>
    [] pointer = "#/defs/p" -> <<"defs", "p">>
    [] pointer = "#/defs/chain" -> <<"defs", "chain">>
    [] pointer = "#/title/length" -> <<"title", "length">>
    [] pointer = "#" -> <<>>
    [] pointer = "other.json#/defs/x" -> <<"other.json#", "defs", "x">>

jsonPointerGet(root, pointer) == deepGet(root, PointerParts(pointer))

\* resolveSchema with the spread turned round: { ...rest, ...target }
resolveSchemaTargetWins(schemaRoot, node) ==
  IF ~IsObjectLike(node) THEN node
  ELSE LET ref == GetProp(node, "$ref") IN
       IF Truthy(ref) /\ ref.t = "str" /\ PointerStartsWithHashSlash(ref.v)
       THEN LET target == jsonPointerGet(schemaRoot, ref.v) IN
            IF ~Truthy(target) THEN node
            ELSE Spread2(JObj(Remove(Entries(node), "$ref")), target)
       ELSE node

resolveSchema(schemaRoot, node) ==
  IF ~IsObjectLike(node) THEN node
  ELSE LET ref == GetProp(node, "$ref") IN
       IF Truthy(ref) /\ ref.t = "str" /\ PointerStartsWithHashSlash(ref.v)
       THEN LET target == jsonPointerGet(schemaRoot, ref.v) IN
            IF ~Truthy(target) THEN node
            ELSE Spread2(target, JObj(Remove(Entries(node), "$ref")))
       ELSE node

\* x || y
OrElse(x, y) == IF Truthy(x) THEN x ELSE y

\* Array.from(new Set(items))
RECURSIVE Dedup(_, _)
Dedup(items, acc) ==
  IF items = <<>> THEN acc
  ELSE Dedup(Tail(items),
             IF \E i \in DOMAIN acc : acc[i] = Head(items) THEN acc
             ELSE Append(acc, Head(items)))

\* mergeSchemas without its two deep merges: { ...a, ...b }
mergeSchemasShallow(a, b) == Spread2(a, b)

mergeSchemas(a, b) ==
  LET out == Spread2(a, b)
      ap == GetProp(a, "properties")
      bp == GetProp(b, "properties")
      ar == GetProp(a, "required")
      br == GetProp(b, "required")
      out1 == IF Truthy(ap) \/ Truthy(bp)
              THEN SetProp(out, "properties",
                           Spread2(OrElse(ap, EmptyObj), OrElse(bp, EmptyObj)))
              ELSE out
  IN IF Truthy(ar) \/ Truthy(br)
     THEN SetProp(out1, "required",
                  JArr(Dedup(Iterate(OrElse(ar, JArr(<<>>)))
                             \o Iterate(OrElse(br, JArr(<<>>))), <<>>)))
     ELSE out1

\* node.allOf.map(x => resolveSchema(schemaRoot, x)).reduce(mergeSchemas, {})
RECURSIVE mergeAllOf(_, _, _)
mergeAllOf(schemaRoot, branches, acc) ==
  IF branches = <<>> THEN acc
  ELSE mergeAllOf(schemaRoot, Tail(branches),
                  mergeSchemas(acc, resolveSchema(schemaRoot, Head(branches))))

\* The root schema for document-level variant index idx.
pickRootSchema(schema, idx) ==
  LET oneOf == GetProp(schema, "oneOf") IN
  IF NonEmptyArray(oneOf)
  THEN resolveSchema(schema, GetProp(oneOf, ToString(Clamp(idx, Len(oneOf.v)))))
  ELSE schema

(* ----------------------------- TypeInferencer -------------------------- *)

inferType(node) ==
  LET type == GetProp(node, "type") IN
  IF Truthy(type) THEN (IF IsArray(type) THEN GetProp(type, "0") ELSE type)
  ELSE IF Truthy(GetProp(node, "properties")) \/ Truthy(GetProp(node, "additionalProperties"))
  THEN JStr("object")
  ELSE IF Truthy(GetProp(node, "items")) THEN JStr("array")
  ELSE IF Truthy(GetProp(node, "enum"))
  THEN (IF GetProp(GetProp(node, "enum"), "0").t = "num" THEN JStr("number") ELSE JStr("string"))
  ELSE JStr("string")

(* --------------------------- DefaultSynthesizer ------------------------ *)

RECURSIVE defaultFor(_, _)

\* defaultFor that fills in every declared property, required or not: the
\* loop body without its test req.has(k)
defaultForEveryProperty(node0, schemaRoot) ==
  LET node == resolveSchema(schemaRoot, node0)
      oneOf == GetProp(node, "oneOf")
      enum == GetProp(node, "enum")
      type == inferType(node)
      props == OrElse(GetProp(node, "properties"), EmptyObj)
      RECURSIVE fill(_, _)
      fill(es, out) ==
        IF es = <<>> THEN out
        ELSE fill(Tail(es), Assign(out, Head(es).k, defaultFor(Head(es).v, schemaRoot)))
  IN IF GetProp(node, "default").t # "undef" THEN GetProp(node, "default")
     ELSE IF NonEmptyArray(oneOf) THEN defaultFor(GetProp(oneOf, "0"), schemaRoot)
     ELSE IF NonEmptyArray(enum) THEN GetProp(enum, "0")
     ELSE IF type = JStr("object") THEN JObj(fill(Entries(props), <<>>))
     ELSE IF type = JStr("array") THEN JArr(<<>>)
     ELSE IF type = JStr("boolean") THEN JBool(FALSE)
     ELSE IF type \in {JStr("integer"), JStr("number")}
     THEN (IF GetProp(node, "minimum").t = "num" THEN GetProp(node, "minimum") ELSE JNum(0))
     ELSE JStr("")

defaultFor(node0, schemaRoot) ==
  LET node == resolveSchema(schemaRoot, node0)
      oneOf == GetProp(node, "oneOf")
      enum == GetProp(node, "enum")
      type == inferType(node)
      props == OrElse(GetProp(node, "properties"), EmptyObj)
      req == Iterate(OrElse(GetProp(node, "required"), JArr(<<>>)))
      RECURSIVE fill(_, _)
      fill(es, out) ==
        IF es = <<>> THEN out
        ELSE fill(Tail(es),
                  IF \E i \in DOMAIN req : req[i] = JStr(Head(es).k)
                  THEN Assign(out, Head(es).k, defaultFor(Head(es).v, schemaRoot))
                  ELSE out)
  IN IF GetProp(node, "default").t # "undef" THEN GetProp(node, "default")
     ELSE IF NonEmptyArray(oneOf) THEN defaultFor(GetProp(oneOf, "0"), schemaRoot)
     ELSE IF NonEmptyArray(enum) THEN GetProp(enum, "0")
     ELSE IF type = JStr("object") THEN JObj(fill(Entries(props), <<>>))
     ELSE IF type = JStr("array") THEN JArr(<<>>)
     ELSE IF type = JStr("boolean") THEN JBool(FALSE)
     ELSE IF type \in {JStr("integer"), JStr("number")}
     THEN (IF GetProp(node, "minimum").t = "num" THEN GetProp(node, "minimum") ELSE JNum(0))
     ELSE JStr("")

(* ------------------------------- serialize ----------------------------- *)

BucketKey == "__additionalProperties"

RECURSIVE buildFinalOutput(_)

\* buildFinalOutput with a merge of the extras that leaves a key alone which
\* the output has already: if (!(k in out)) out[k] = buildFinalOutput(v)
buildFinalOutputNamedWins(value) ==
  IF IsArray(value)
  THEN JArr(SelectSeq([i \in DOMAIN value.v |->
                         IF value.v[i].t = "hole" THEN Hole ELSE buildFinalOutput(value.v[i])],
                      LAMBDA b : b.t \notin {"undef", "hole"}))
  ELSE IF value.t = "obj"
  THEN LET RECURSIVE named(_, _)
           named(es, out) ==
             IF es = <<>> THEN out
             ELSE named(Tail(es),
                        IF Head(es).v.t = "undef" \/ Head(es).k = BucketKey THEN out
                        ELSE LET built == buildFinalOutput(Head(es).v) IN
                             IF built.t # "undef" THEN Assign(out, Head(es).k, built) ELSE out)
           RECURSIVE extras(_, _)
           extras(es, out) ==
             IF es = <<>> THEN out
             ELSE extras(Tail(es),
                         IF Head(es).v.t = "undef" \/ HasKey(out, Head(es).k) THEN out
                         ELSE Assign(out, Head(es).k, buildFinalOutput(Head(es).v)))
           bucket == GetProp(value, BucketKey)
           out0 == named(Entries(value), <<>>)
       IN JObj(IF Truthy(bucket) /\ IsObjectLike(bucket)
               THEN extras(Entries(bucket), out0) ELSE out0)
  ELSE value

buildFinalOutput(value) ==
  IF IsArray(value)
  THEN JArr(SelectSeq([i \in DOMAIN value.v |->
                         IF value.v[i].t = "hole" THEN Hole ELSE buildFinalOutput(value.v[i])],
                      LAMBDA b : b.t \notin {"undef", "hole"}))
  ELSE IF value.t = "obj"
  THEN LET RECURSIVE named(_, _)
           named(es, out) ==
             IF es = <<>> THEN out
             ELSE named(Tail(es),
                        IF Head(es).v.t = "undef" \/ Head(es).k = BucketKey THEN out
                        ELSE LET built == buildFinalOutput(Head(es).v) IN
                             IF built.t # "undef" THEN Assign(out, Head(es).k, built) ELSE out)
           RECURSIVE extras(_, _)
           extras(es, out) ==
             IF es = <<>> THEN out
             ELSE extras(Tail(es),
                         IF Head(es).v.t = "undef" THEN out
                         ELSE Assign(out, Head(es).k, buildFinalOutput(Head(es).v)))
           bucket == GetProp(value, BucketKey)
           out0 == named(Entries(value), <<>>)
       IN JObj(IF Truthy(bucket) /\ IsObjectLike(bucket)
               THEN extras(Entries(bucket), out0) ELSE out0)
  ELSE value

(* -------------------------------- Validator ---------------------------- *)

\* new RegExp(pattern).test(value) for the patterns the schema documents of
\* the model hold: "match", "nomatch", or "invalid" when the constructor throws.
PatternTest(pattern, value) ==
  CASE pattern = JStr("^a") -> IF value \in {"a"} THEN "match" ELSE "nomatch"
    [] pattern = JStr("(") -> "invalid"

\* state.inlineOneOf.get(key) ?? 0
MapGetOr0(map, key) == IF key \in DOMAIN map THEN map[key] ELSE 0

\* The branch of a non-empty oneOf the validator descends into at pathStr.
validateBranch(inline, pathStr, n) == Clamp(MapGetOr0(inline, pathStr), n)

\* validateAgainst(schemaRoot, node0, value, pathStr, errs): the messages the
\* call appends to errs, in order. inline is state.inlineOneOf.
RECURSIVE validateAgainst(_, _, _, _, _)
validateAgainst(schemaRoot, node0, value, pathStr, inline) ==
  LET node == resolveSchema(schemaRoot, node0)
      oneOf == GetProp(node, "oneOf")
      type == inferType(node)
      enum == GetProp(node, "enum")
      minimum == GetProp(node, "minimum")
      maximum == GetProp(node, "maximum")
      enumErr == IF IsArray(enum) /\ ~Includes(enum, value)
                 THEN <<pathStr \o " must be one of " \o Join(enum.v, ", ")>> ELSE <<>>
      props == OrElse(GetProp(node, "properties"), EmptyObj)
      req == Iterate(OrElse(GetProp(node, "required"), JArr(<<>>)))
      ap == GetProp(node, "additionalProperties")
      RECURSIVE missing(_)
      missing(ks) ==
        IF ks = <<>> THEN <<>>
        ELSE (IF GetProp(value, ToStr(Head(ks))).t = "undef"
              THEN <<pathStr \o "." \o ToStr(Head(ks)) \o " is required">> ELSE <<>>)
             \o missing(Tail(ks))
      RECURSIVE named(_)
      named(es) ==
        IF es = <<>> THEN <<>>
        ELSE (IF GetProp(value, Head(es).k).t # "undef"
              THEN validateAgainst(schemaRoot, Head(es).v, GetProp(value, Head(es).k),
                                   pathStr \o "." \o Head(es).k, inline)
              ELSE <<>>)
             \o named(Tail(es))
      RECURSIVE extra(_)
      extra(es) ==
        IF es = <<>> THEN <<>>
        ELSE (IF Truthy(GetProp(props, Head(es).k)) THEN <<>>
              ELSE validateAgainst(schemaRoot, resolveSchema(schemaRoot, ap), Head(es).v,
                                   pathStr \o "." \o Head(es).k, inline))
             \o extra(Tail(es))
      RECURSIVE items(_)
      items(i) ==
        IF i > Len(value.v) THEN <<>>
        ELSE (IF value.v[i].t = "hole" THEN <<>>
              ELSE validateAgainst(schemaRoot, GetProp(node, "items"), value.v[i],
                                   pathStr \o "[" \o ToString(i - 1) \o "]", inline))
             \o items(i + 1)
  IN IF NonEmptyArray(oneOf)
     THEN validateAgainst(schemaRoot,
                          GetProp(oneOf, ToString(validateBranch(inline, pathStr, Len(oneOf.v)))),
                          value, pathStr, inline)
     ELSE IF value.t = "undef" THEN <<>>
     ELSE IF type = JStr("object")
     THEN IF value.t # "obj" THEN <<pathStr \o " must be an object">>
          ELSE missing(req) \o named(Entries(props))
               \o (IF Truthy(ap) /\ IsObjectLike(ap) THEN extra(Entries(value)) ELSE <<>>)
     ELSE IF type = JStr("array")
     THEN IF ~IsArray(value) THEN <<pathStr \o " must be an array">>
          ELSE (IF GetProp(node, "minItems").t = "num" /\ Len(value.v) < GetProp(node, "minItems").v
                THEN <<pathStr \o " minItems " \o ToStr(GetProp(node, "minItems"))>> ELSE <<>>)
               \o (IF GetProp(node, "maxItems").t = "num" /\ Len(value.v) > GetProp(node, "maxItems").v
                   THEN <<pathStr \o " maxItems " \o ToStr(GetProp(node, "maxItems"))>> ELSE <<>>)
               \o (IF Truthy(GetProp(node, "items")) THEN items(1) ELSE <<>>)
     ELSE IF type = JStr("boolean")
     THEN IF value.t # "bool" THEN <<pathStr \o " must be boolean">> ELSE <<>>
     ELSE IF type \in {JStr("number"), JStr("integer")}
     THEN (IF value.t # "num" THEN <<pathStr \o " must be a number">> ELSE <<>>)
          \o (IF type = JStr("integer") /\ value.t # "num"
              THEN <<pathStr \o " must be an integer">> ELSE <<>>)
          \o (IF minimum.t = "num" /\ JsLess(value, minimum)
              THEN <<pathStr \o " minimum " \o ToStr(minimum)>> ELSE <<>>)
          \o (IF maximum.t = "num" /\ JsLess(maximum, value)
              THEN <<pathStr \o " maximum " \o ToStr(maximum)>> ELSE <<>>)
          \o enumErr
     ELSE IF value.t # "str" THEN <<pathStr \o " must be a string">>
     ELSE (IF Truthy(GetProp(node, "pattern"))
              /\ PatternTest(GetProp(node, "pattern"), value.v) = "nomatch"
           THEN <<pathStr \o " does not match pattern">> ELSE <<>>)
          \o enumErr

(* ------------------------- JSON.stringify(x, null, 2) ------------------ *)

RECURSIVE stringify(_, _)
stringify(j, indent) ==
  LET inner == indent \o "  "
      RECURSIVE members(_)
      members(es) ==
        IF es = <<>> THEN ""
        ELSE inner \o "\"" \o Head(es).k \o "\": " \o stringify(Head(es).v, inner)
             \o (IF Len(es) > 1 THEN ",\n" \o members(Tail(es)) ELSE "")
      RECURSIVE elements(_)
      elements(xs) ==
        IF xs = <<>> THEN ""
        ELSE inner \o (IF Head(xs).t \in {"undef", "hole"} THEN "null"
                       ELSE stringify(Head(xs), inner))
             \o (IF Len(xs) > 1 THEN ",\n" \o elements(Tail(xs)) ELSE "")
      shown == IF j.t = "obj" THEN SelectSeq(j.v, LAMBDA e : e.v.t # "undef") ELSE <<>>
  IN CASE j.t = "null" -> "null"
       [] j.t = "bool" -> IF j.v THEN "true" ELSE "false"
       [] j.t = "num" -> ToString(j.v)
       [] j.t = "str" -> "\"" \o j.v \o "\""
       [] j.t = "obj" -> IF shown = <<>> THEN "{}"
                         ELSE "{\n" \o members(shown) \o "\n" \o indent \o "}"
       [] j.t = "arr" -> IF j.v = <<>> THEN "[]"
                         ELSE "[\n" \o elements(j.v) \o "\n" \o indent \o "]"

(* --------------------------------- render ------------------------------ *)

\* A widget of the rendered form with what its event handler closes over and
\* what it shows: its kind, the value-tree path, a schema node (the entry or
\* item schema of an Add button, the enum of a select), a key (the entry key
\* or item index of a Rename or Remove button, the number kind of a number
\* select), the option count of a oneOf select, and the value shown (the
\* checked state of a checkbox, the selected option of a select).
Control(kind, path, node, key, n, shown) ==
  [kind |-> kind, path |-> path, node |-> node, key |-> key, n |-> n, shown |-> shown]

\* The option a oneOf select shows for a recorded choice: an option that does
\* not exist leaves the select without a value, and Number("") || 0 is 0.
shownOption(inline, pk, n) ==
  IF pk \in DOMAIN inline /\ inline[pk] < n THEN inline[pk] ELSE 0

\* The option an enum select shows: String(cur ?? node.default ?? node.enum[0])
\* when that is an option, the first option when the value is null or
\* undefined, no option ("") otherwise.
shownEnum(cur, node) ==
  LET enum == GetProp(node, "enum")
      v == Coalesce(Coalesce(cur, GetProp(node, "default")), GetProp(enum, "0"))
  IN IF IsNullish(v) THEN (IF Len(enum.v) > 0 THEN Join(<<enum.v[1]>>, "") ELSE "")
     ELSE IF \E i \in DOMAIN enum.v : Join(<<enum.v[i]>>, "") = ToStr(v) THEN ToStr(v)
     ELSE ""

RECURSIVE renderNode(_, _, _, _, _)

\* The select of a field-level oneOf and the form of the branch it shows
renderInlineOneOf(schemaRoot, oneOf, path, vals, inline, option) ==
  {Control("inlineOneOf", path, Undef, "", Len(oneOf.v), ToString(option))}
  \cup renderNode(schemaRoot,
                  resolveSchema(schemaRoot,
                                GetProp(oneOf, ToString(Clamp(option, Len(oneOf.v))))),
                  path, vals, inline)

\* The rows of a pure map: a key input, a Remove button and the entry's form
renderEntries(schemaRoot, ap, path, curObj, vals, inline) ==
  {Control("addEntry", path, ap, "", 0, "")}
  \cup UNION {{Control("renameEntry", path, Undef, curObj[i].k, 0, ""),
               Control("removeEntry", path, Undef, curObj[i].k, 0, "")}
              \cup renderNode(schemaRoot, ap, Append(path, curObj[i].k), vals, inline)
              : i \in DOMAIN curObj}

\* The named properties, each with an Unset button unless it is required
renderProps(schemaRoot, props, req, path, vals, inline) ==
  UNION {renderNode(schemaRoot, resolveSchema(schemaRoot, props[i].v),
                    Append(path, props[i].k), vals, inline)
         \cup (IF \E r \in DOMAIN req : req[r] = JStr(props[i].k) THEN {}
               ELSE {Control("unset", Append(path, props[i].k), Undef, "", 0, "")})
         : i \in DOMAIN props}

\* The extra properties kept under mapPath, each with a Remove button
renderExtras(schemaRoot, ap, mapPath, curExtra, vals, inline) ==
  {Control("addExtra", mapPath, ap, "", 0, "")}
  \cup UNION {{Control("removeExtra", mapPath, Undef, curExtra[i].k, 0, "")}
              \cup renderNode(schemaRoot, ap, Append(mapPath, curExtra[i].k), vals, inline)
              : i \in DOMAIN curExtra}

renderObject(schemaRoot, node, path, vals, inline) ==
  LET props == Entries(OrElse(GetProp(node, "properties"), EmptyObj))
      hasNamedProps == Len(props) > 0
      hasMap == Truthy(GetProp(node, "additionalProperties"))
  IN IF ~hasNamedProps /\ hasMap
     THEN renderEntries(schemaRoot,
                        resolveSchema(schemaRoot, GetProp(node, "additionalProperties")),
                        path, Entries(Coalesce(deepGet(vals, path), EmptyObj)), vals, inline)
     ELSE renderProps(schemaRoot, props,
                      Iterate(OrElse(GetProp(node, "required"), JArr(<<>>))),
                      path, vals, inline)
          \cup (IF hasNamedProps /\ hasMap
                THEN renderExtras(schemaRoot,
                                  resolveSchema(schemaRoot,
                                                GetProp(node, "additionalProperties")),
                                  Append(path, BucketKey),
                                  Entries(Coalesce(deepGet(vals, Append(path, BucketKey)),
                                                   EmptyObj)),
                                  vals, inline)
                ELSE {})

\* The rows of an array (forEach skips the holes) and its Add item button
renderItems(schemaRoot, itemsSchema, path, arr, vals, inline) ==
  {Control("addItem", path, itemsSchema, "", 0, "")}
  \cup UNION {IF arr[i].t = "hole" THEN {}
              ELSE {Control("removeItem", path, Undef, ToString(i - 1), 0, "")}
                   \cup renderNode(schemaRoot, itemsSchema,
                                   Append(path, ToString(i - 1)), vals, inline)
              : i \in DOMAIN arr}

renderArray(schemaRoot, node, path, vals, inline) ==
  renderItems(schemaRoot,
              resolveSchema(schemaRoot, OrElse(GetProp(node, "items"), EmptyObj)),
              path,
              IF IsArray(deepGet(vals, path)) THEN deepGet(vals, path).v ELSE <<>>,
              vals, inline)

renderBoolean(node, path, cur) ==
  {Control("boolean", path, Undef, "", 0,
           IF Coalesce(Coalesce(cur, GetProp(node, "default")), JBool(FALSE)) = JBool(TRUE)
           THEN "true" ELSE "false")}

renderNumber(node, path, cur, type) ==
  IF IsArray(GetProp(node, "enum"))
  THEN {Control("numberSelect", path, GetProp(node, "enum"), type.v, 0, shownEnum(cur, node))}
  ELSE {Control("number", path, Undef, "", 0, "")}

renderString(node, path, cur) ==
  IF IsArray(GetProp(node, "enum"))
  THEN {Control("stringSelect", path, GetProp(node, "enum"), "", 0, shownEnum(cur, node))}
  ELSE {Control("string", path, Undef, "", 0, "")}

\* renderNode past its allOf composition, on the node it goes on with
renderComposed(schemaRoot, node, type, path, vals, inline) ==
  IF NonEmptyArray(GetProp(node, "oneOf"))
  THEN renderInlineOneOf(schemaRoot, GetProp(node, "oneOf"), path, vals, inline,
                         shownOption(inline, pathKey(path), ArrLen(GetProp(node, "oneOf"))))
  ELSE IF type = JStr("object") THEN renderObject(schemaRoot, node, path, vals, inline)
  ELSE IF type = JStr("array") THEN renderArray(schemaRoot, node, path, vals, inline)
  ELSE IF type = JStr("boolean") THEN renderBoolean(node, path, deepGet(vals, path))
  ELSE IF type \in {JStr("number"), JStr("integer")}
  THEN renderNumber(node, path, deepGet(vals, path), type)
  ELSE renderString(node, path, deepGet(vals, path))

\* The node a node0 stands for: its $ref resolved, its allOf merged
composed(schemaRoot, node) ==
  IF NonEmptyArray(GetProp(node, "allOf"))
  THEN mergeAllOf(schemaRoot, Iterate(GetProp(node, "allOf")), EmptyObj)
  ELSE node

\* The widgets renderNode draws for node0 at path
renderNode(schemaRoot, node0, path, vals, inline) ==
  renderComposed(schemaRoot, composed(schemaRoot, resolveSchema(schemaRoot, node0)),
                 inferType(composed(schemaRoot, resolveSchema(schemaRoot, node0))),
                 path, vals, inline)

(* ------------------------------ the session ---------------------------- *)

\* Schema documents the user's files hold.
DocA ==
  JObj(<<E("type", JStr("object")),
         E("properties",
           JObj(<<E("s", JObj(<<E("type", JStr("string"))>>)),
                  E("v", JObj(<<E("oneOf",
                                  JArr(<<JObj(<<E("type", JStr("boolean"))>>),
                                         JObj(<<E("type", JStr("integer")),
                                                E("minimum", JNum(1))>>)>>))>>))>>)),
         E("required", JArr(<<JStr("v")>>)),
         E("additionalProperties", JObj(<<E("type", JStr("string"))>>))>>)
DocB ==
  JObj(<<E("oneOf",
           JArr(<<JObj(<<E("type", JStr("object")),
                         E("properties",
                           JObj(<<E("xs",
                                    JObj(<<E("type", JStr("array")),
                                           E("items",
                                             JObj(<<E("oneOf",
                                                      JArr(<<JObj(<<E("type", JStr("string"))>>),
                                                             JObj(<<E("type", JStr("boolean"))>>)>>))>>)),
                                           E("minItems", JNum(1))>>))>>)),
                         E("required", JArr(<<JStr("xs")>>))>>),
                  JObj(<<E("type", JStr("object")),
                         E("properties",
                           JObj(<<E("m", JObj(<<E("additionalProperties",
                                                  JObj(<<E("type", JStr("boolean"))>>))>>))>>))>>)>>))>>)
DocC ==
  JObj(<<E("$ref", JStr("#/defs/x")),
         E("defs",
           JObj(<<E("x", JObj(<<E("oneOf",
                                  JArr(<<JObj(<<E("type", JStr("string"))>>),
                                         JObj(<<E("type", JStr("boolean"))>>)>>))>>))>>))>>)

\* A document with a default for the whole value, an object.
DocD ==
  JObj(<<E("type", JStr("object")),
         E("properties", JObj(<<E("s", JObj(<<E("type", JStr("string"))>>))>>)),
         E("default", JObj(<<E("s", JStr("b"))>>))>>)

\* What reading and parsing a file gives: f.text() rejecting ("unreadable"),
\* tryJsonParse failing ("malformed"), or the parsed document.
FileNames == {"a.schema.json", "b.schema.json", "c.json", "d.json", "bad.json", "gone.json"}
FileOutcome(name) ==
  CASE name = "a.schema.json" -> [kind |-> "ok", value |-> DocA]
    [] name = "b.schema.json" -> [kind |-> "ok", value |-> DocB]
    [] name = "c.json" -> [kind |-> "ok", value |-> DocC]
    [] name = "d.json" -> [kind |-> "ok", value |-> DocD]
    [] name = "bad.json" -> [kind |-> "malformed", value |-> Undef]
    [] name = "gone.json" -> [kind |-> "unreadable", value |-> Undef]

\* The file selections a load is started with.
Batches ==
  {<<"b.schema.json", "a.schema.json">>, <<"c.json">>, <<"bad.json">>,
   <<"bad.json", "a.schema.json">>, <<"gone.json", "a.schema.json">>}
\* The selections of a session that loads its two schemas at once, a read
\* failing at times.
SessionBatches == {<<"b.schema.json", "a.schema.json">>, <<"gone.json", "a.schema.json">>}
\* The selections of a session that also loads the schema with a default
\* object.
SharingBatches == SessionBatches \cup {<<"d.json">>}

\* What the user types or picks.
TextInputs == {"", "a"}
NumberInputs == {"", "0", "1"}
PromptInputs == {"", "s", BucketKey}
\* Loads in flight at once, and items an array is grown to.
MaxLoads == 1
\* Loads in flight at once where loads overlap.
MaxOverlap == 2
MaxItems == 1
\* User events of a session.
MaxEvents == 4

\* Number(text) of a number input's text, undefined for the empty text
InputNumber(text) ==
  CASE text = "" -> Undef
    [] text = "0" -> JNum(0)
    [] text = "1" -> JNum(1)

\* null, as state.activeSchemaName holds it
NoName == ""
EmptyMap == [k \in {} |-> 0]

VARIABLES
  schemas,           \* state.schemas: <<[name, doc], ...>> in insertion order
  activeSchemaName,  \* state.activeSchemaName
  activeOneOfIndex,  \* state.activeOneOfIndex
  values,            \* state.values
  inlineOneOf,       \* state.inlineOneOf: pathKey -> index
  shared,            \* where in the active schema document the object is that
                     \* state.values is, <<>> when it is no object of a document
  selectOptions,     \* the options of #schemaSelect
  selectValue,       \* schemaSelect.value
  editDisabled,      \* defaultsBtn.disabled and clearBtn.disabled
  pickerCount,       \* options of the shown document-level oneOf select, 0 when hidden
  pickerValue,       \* the option it shows
  controls,          \* the widgets of #formRoot
  formRoot,          \* the schemaRoot their handlers close over
  preview,           \* jsonPreview.textContent
  errors,            \* the messages shown in #errors
  exportEnabled,     \* copyBtn and downloadBtn enabled
  timers,            \* pending timeouts of the debounced updatePreviewAndValidate
  loads,             \* the schemaFiles change handlers suspended at an await
  last,              \* history: the handler that ran last
  scheduled,         \* history: the calls of updatePreviewAndValidate that followed
                     \*          the last state changes, none of them left without one
                     \*          and no recompute run between them (the burst)
  runs,              \* history: recomputes run since that call
  events,            \* history: user events handled so far
  probe              \* the engine call under examination, outside any session

state == <<schemas, activeSchemaName, activeOneOfIndex, values, inlineOneOf, shared>>
dom == <<selectOptions, selectValue, editDisabled, pickerCount, pickerValue, controls, formRoot>>
shown == <<preview, errors, exportEnabled>>
vars == <<state, dom, shown, timers, loads, last, scheduled, runs, events, probe>>

Names(sch) == {sch[i].name : i \in DOMAIN sch}
\* state.schemas.get(name), for a name the map holds
SchemaOf(sch, name) == sch[CHOOSE i \in DOMAIN sch : sch[i].name = name].doc
\* state.schemas.set(name, doc)
MapSet(sch, name, doc) ==
  IF name \in Names(sch)
  THEN [i \in DOMAIN sch |-> IF sch[i].name = name THEN [name |-> name, doc |-> doc] ELSE sch[i]]
  ELSE Append(sch, [name |-> name, doc |-> doc])

\* The burst a call of updatePreviewAndValidate belongs to goes on while no
\* recompute has run since the call before.
Burst == IF scheduled > 0 /\ runs = 0 THEN scheduled + 1 ELSE 1

\* debounce: clearTimeout(t); t = setTimeout(fn, ms), on the count of pending
\* timeouts
debounceNoClear(pending) == pending + 1
debounce(pending) == 1

\* What a handler leaves in history: its name, the path and the value it
\* wrote, whether it returned (ok) or threw, and whether the value tree and the
\* field-level selections both held something when it started.
Did(op, path, val, ok) ==
  [op |-> op, path |-> path, val |-> val, ok |-> ok,
   full |-> values # EmptyObj /\ inlineOneOf # EmptyMap]

\* A load that has ended: its files, whether it returned or its read was
\* rejected, whether one of its files failed, whether no other handler ran
\* while it was suspended, the state its start found, whether it was
\* suspended while another load was, the files of the load started last,
\* and whether only loads have run since that one started.
Ended(load, ok) ==
  [op |-> "loadEnd", files |-> load.files, ok |-> ok,
   failed |-> load.failed \/ FileOutcome(load.files[load.i]).kind # "ok",
   alone |-> load.alone, pre |-> load.pre,
   over |-> load.over, recent |-> load.recent, only |-> load.only]

\* Every suspended load has seen another handler run.
Disturbed(ls) == [i \in DOMAIN ls |-> [ls[i] EXCEPT !.alone = FALSE]]

\* Every suspended load has seen a handler run that is no load.
Interrupted(ls) == [i \in DOMAIN ls |-> [ls[i] EXCEPT !.alone = FALSE, !.only = FALSE]]

\* Every suspended load has seen a load start with the files of batch.
Superseded(ls, batch) ==
  [i \in DOMAIN ls |->
     [ls[i] EXCEPT !.alone = FALSE, !.over = TRUE, !.recent = batch, !.only = TRUE]]

\* One more user event is handled, while loads may be suspended.
Handled ==
  /\ events < MaxEvents
  /\ events' = events + 1
  /\ loads' = Interrupted(loads)
  /\ UNCHANGED probe

\* Where in the document schema the object is that defaultFor(root, schema)
\* returns as the document holds it (return node.default, line 664), <<>> when
\* the value is not an object or an array. The documents above have such a
\* default at the root alone, which no $ref stands beside.
sharedDefault(schema, root) ==
  LET held == GetProp(resolveSchema(schema, root), "default") IN
  CASE ~IsObjectLike(held) -> <<>>
    [] IsObjectLike(held) /\ root = schema /\ ~HasKey(schema.v, "$ref") -> <<"default">>

\* A document when the value tree, changed in place, has become vals: where
\* the tree is the object the document holds at shared, the document holds
\* vals there.
Through(doc, vals) == IF shared = <<>> THEN doc ELSE deepSet(doc, shared, vals).val

\* The schema map when the value tree, changed in place, has become vals.
Written(sch, vals) ==
  IF shared = <<>> THEN sch
  ELSE MapSet(sch, activeSchemaName, Through(SchemaOf(sch, activeSchemaName), vals))

\* render() in the state <<sch, act, idx, vals, inl>>: the DOM it leaves and
\* the call of updatePreviewAndValidate that ends it. With no active schema it
\* empties the form and returns; with an active name the map does not hold,
\* pickRootSchema(undefined) throws before anything is drawn, and the form
\* stays as the event left it (staleControls, stalePicker).
render(sch, act, idx, vals, inl, staleControls, stalePicker) ==
  IF act = NoName
  THEN /\ controls' = {}
       /\ formRoot' = Undef
       /\ pickerCount' = 0
       /\ pickerValue' = 0
       /\ preview' = "{}"
       /\ errors' = <<>>
       /\ scheduled' = 0
       /\ UNCHANGED <<timers, runs>>
  ELSE IF act \notin Names(sch)
  THEN /\ controls' = staleControls
       /\ pickerValue' = stalePicker
       /\ scheduled' = 0
       /\ UNCHANGED <<formRoot, pickerCount, preview, errors, timers, runs>>
  ELSE LET schema == SchemaOf(sch, act)
           n == ArrLen(GetProp(schema, "oneOf"))
       IN /\ controls' = renderNode(schema, pickRootSchema(schema, idx), <<>>, vals, inl)
          /\ formRoot' = schema
          /\ pickerCount' = n
          /\ pickerValue' = IF idx < n THEN idx ELSE 0
          /\ timers' = debounce(timers)
          /\ scheduled' = Burst
          /\ runs' = 0
          /\ UNCHANGED <<preview, errors>>

\* updatePreviewAndValidate() called by a handler that does not render, the
\* value tree having been changed in place.
update ==
  /\ timers' = debounce(timers)
  /\ scheduled' = Burst
  /\ runs' = 0
  /\ formRoot' = Through(formRoot, values')
  /\ UNCHANGED <<pickerCount, pickerValue, preview, errors>>

\* A handler that threw before it rendered or scheduled anything.
thrown ==
  /\ formRoot' = Through(formRoot, values')
  /\ UNCHANGED <<pickerCount, pickerValue, preview, errors, timers, runs, scheduled>>

\* No engine call is examined during a session.
NoProbe == [op |-> "none"]

\* The page after construction: the state object of lines 80-87 and the first
\* render().
Fresh ==
  /\ schemas = <<>>
  /\ activeSchemaName = NoName
  /\ activeOneOfIndex = 0
  /\ values = EmptyObj
  /\ inlineOneOf = EmptyMap
  /\ shared = <<>>
  /\ selectOptions = <<>>
  /\ selectValue = ""
  /\ editDisabled \in BOOLEAN
  /\ pickerCount = 0
  /\ pickerValue = 0
  /\ controls = {}
  /\ formRoot = Undef
  /\ preview = "{}"
  /\ errors = <<>>
  /\ exportEnabled \in BOOLEAN
  /\ timers = 0
  /\ loads = <<>>
  /\ last = [op |-> "init", path |-> <<>>, val |-> Undef, ok |-> TRUE, full |-> FALSE]
  /\ scheduled = 0
  /\ runs = 0
  /\ events = 0

Init == Fresh /\ probe = NoProbe

(* ------------------------------ file loads ----------------------------- *)

\* schemaFilesInput "change", up to its first await f.text(), fewer than most
\* loads being suspended
LoadStartAmong(batch, most) ==
  /\ Len(loads) < most
  /\ events < MaxEvents
  /\ events' = events + 1
  /\ schemas' = <<>>
  /\ inlineOneOf' = EmptyMap
  /\ shared' = <<>>
  /\ loads' = Append(Superseded(loads, batch),
                     [files |-> batch, i |-> 1, failed |-> FALSE, alone |-> TRUE,
                      over |-> loads # <<>>, recent |-> batch, only |-> TRUE,
                      pre |-> [names |-> Names(schemas), active |-> activeSchemaName,
                               values |-> values, inline |-> inlineOneOf]])
  /\ last' = Did("loadStart", <<>>, Undef, TRUE)
  /\ scheduled' = 0
  /\ UNCHANGED <<activeSchemaName, activeOneOfIndex, values, dom, shown, timers, runs, probe>>

LoadStart(batch) == LoadStartAmong(batch, MaxLoads)

Without(ls, k) == [i \in 1..(Len(ls) - 1) |-> IF i < k THEN ls[i] ELSE ls[i + 1]]

\* The read of a suspended load is rejected: the async handler ends there.
LoadAbort(k) ==
  /\ k \in DOMAIN loads
  /\ FileOutcome(loads[k].files[loads[k].i]).kind = "unreadable"
  /\ loads' = Disturbed(Without(loads, k))
  /\ last' = Ended(loads[k], FALSE)
  /\ UNCHANGED <<state, dom, shown, timers, scheduled, runs, events, probe>>

\* The read of a suspended load resolves and another file follows: the text
\* is parsed, stored or reported, and the handler awaits the next read.
LoadStep(k) ==
  /\ k \in DOMAIN loads
  /\ loads[k].i < Len(loads[k].files)
  /\ LET name == loads[k].files[loads[k].i]
         parsed == FileOutcome(name)
     IN /\ parsed.kind # "unreadable"
        /\ schemas' = IF parsed.kind = "ok" THEN MapSet(schemas, name, parsed.value) ELSE schemas
        /\ loads' = [Disturbed(loads) EXCEPT ![k] =
                       [loads[k] EXCEPT !.i = @ + 1,
                                        !.failed = @ \/ parsed.kind # "ok"]]
        /\ last' = Did("loadStep", <<>>, Undef, TRUE)
        /\ scheduled' = IF parsed.kind = "ok" THEN 0 ELSE scheduled
        /\ UNCHANGED <<activeSchemaName, activeOneOfIndex, values, inlineOneOf, shared, dom,
                       shown, timers, runs, events, probe>>

\* The read of the last file resolves: the handler runs to its end.
LoadFinish(k) ==
  /\ k \in DOMAIN loads
  /\ loads[k].i = Len(loads[k].files)
  /\ LET name == loads[k].files[loads[k].i]
         parsed == FileOutcome(name)
         sch == IF parsed.kind = "ok" THEN MapSet(schemas, name, parsed.value) ELSE schemas
         first == IF sch = <<>> THEN "" ELSE sch[1].name
     IN /\ parsed.kind # "unreadable"
        /\ schemas' = sch
        /\ selectOptions' = [i \in DOMAIN sch |-> sch[i].name]
        /\ selectValue' = first
        /\ editDisabled' = (Len(sch) = 0)
        /\ activeSchemaName' = first
        /\ activeOneOfIndex' = 0
        /\ values' = EmptyObj
        /\ shared' = <<>>
        /\ render(sch, first, 0, EmptyObj, inlineOneOf, controls, pickerValue)
        /\ loads' = Disturbed(Without(loads, k))
        /\ last' = Ended(loads[k], TRUE)
        /\ UNCHANGED <<inlineOneOf, exportEnabled, events, probe>>

(* --------------------------- session handlers -------------------------- *)

\* schemaSelect "change"
SelectSchema(name) ==
  /\ name \in SeqToSet(selectOptions)
  /\ name # selectValue
  /\ selectValue' = name
  /\ activeSchemaName' = name
  /\ activeOneOfIndex' = 0
  /\ inlineOneOf' = EmptyMap
  /\ values' = EmptyObj
  /\ shared' = <<>>
  /\ render(schemas, name, 0, EmptyObj, EmptyMap, controls, pickerValue)
  /\ Handled
  /\ last' = Did("select", <<>>, Undef, TRUE)
  /\ UNCHANGED <<schemas, selectOptions, editDisabled, exportEnabled>>

\* defaultsBtn "click", where it gets past its first two lookups
Defaults ==
  /\ ~editDisabled
  /\ activeSchemaName # NoName
  /\ activeSchemaName \in Names(schemas)
  /\ LET schema == SchemaOf(schemas, activeSchemaName)
         vals == defaultFor(pickRootSchema(schema, activeOneOfIndex), schema)
     IN /\ values' = vals
        /\ shared' = sharedDefault(schema, pickRootSchema(schema, activeOneOfIndex))
        /\ inlineOneOf' = EmptyMap
        /\ render(schemas, activeSchemaName, activeOneOfIndex, vals, EmptyMap,
                  controls, pickerValue)
  /\ Handled
  /\ last' = Did("defaults", <<>>, Undef, TRUE)
  /\ UNCHANGED <<schemas, activeSchemaName, activeOneOfIndex, selectOptions, selectValue,
                 editDisabled, exportEnabled>>

\* clearBtn "click"
Clear ==
  /\ ~editDisabled
  /\ values' = EmptyObj
  /\ shared' = <<>>
  /\ inlineOneOf' = EmptyMap
  /\ render(schemas, activeSchemaName, activeOneOfIndex, EmptyObj, EmptyMap,
            controls, pickerValue)
  /\ Handled
  /\ last' = Did("clear", <<>>, Undef, TRUE)
  /\ UNCHANGED <<schemas, activeSchemaName, activeOneOfIndex, selectOptions, selectValue,
                 editDisabled, exportEnabled>>

\* resetBtn "click"
Reset ==
  /\ schemas' = <<>>
  /\ inlineOneOf' = EmptyMap
  /\ activeSchemaName' = NoName
  /\ activeOneOfIndex' = 0
  /\ values' = EmptyObj
  /\ shared' = <<>>
  /\ selectOptions' = <<>>
  /\ selectValue' = ""
  /\ editDisabled' = TRUE
  /\ exportEnabled' = FALSE
  /\ render(<<>>, NoName, 0, EmptyObj, EmptyMap, controls, pickerValue)
  /\ Handled
  /\ last' = Did("reset", <<>>, Undef, TRUE)

\* The new state.activeOneOfIndex, state.values and state.inlineOneOf of the
\* document-level oneOf select's "change" handler.
variantChangeKeepsInline(i) == [index |-> i, values |-> EmptyObj, inline |-> inlineOneOf]
variantChange(i) == [index |-> i, values |-> EmptyObj, inline |-> EmptyMap]

\* The document-level oneOf select's "change"
DocVariant(i) ==
  /\ i \in 0..(pickerCount - 1)
  /\ i # pickerValue
  /\ activeOneOfIndex' = variantChange(i).index
  /\ values' = variantChange(i).values
  /\ shared' = <<>>
  /\ inlineOneOf' = variantChange(i).inline
  /\ render(schemas, activeSchemaName, variantChange(i).index, variantChange(i).values,
            variantChange(i).inline, controls, i)
  /\ Handled
  /\ last' = Did("docVariant", <<>>, Undef, TRUE)
  /\ UNCHANGED <<schemas, activeSchemaName, selectOptions, selectValue, editDisabled,
                 exportEnabled>>

\* A field-level oneOf select's "change"
InlineVariant(c, i) ==
  /\ c \in controls
  /\ c.kind = "inlineOneOf"
  /\ i \in 0..(c.n - 1)
  /\ ToString(i) # c.shown
  /\ LET inl == [k \in DOMAIN inlineOneOf \cup {pathKey(c.path)} |->
                   IF k = pathKey(c.path) THEN i ELSE inlineOneOf[k]]
         vals == deepDelete(values, c.path)
     IN /\ inlineOneOf' = inl
        /\ values' = vals
        /\ schemas' = Written(schemas, vals)
        /\ render(Written(schemas, vals), activeSchemaName, activeOneOfIndex, vals, inl,
                  (controls \ {c}) \cup {[c EXCEPT !.shown = ToString(i)]}, pickerValue)
  /\ Handled
  /\ last' = Did("inlineOneOf", c.path, Undef, TRUE)
  /\ UNCHANGED <<shared, activeSchemaName, activeOneOfIndex, selectOptions, selectValue,
                 editDisabled, exportEnabled>>

(* ----------------------------- field handlers -------------------------- *)

\* The frame of a handler of the form: the session around the value tree,
\* which the handler has changed in place.
EditFrame ==
  /\ schemas' = Written(schemas, values')
  /\ UNCHANGED <<shared, activeSchemaName, activeOneOfIndex, inlineOneOf, selectOptions,
                 selectValue, editDisabled, exportEnabled>>

\* A handler that ends deepSet(state.values, path, value);
\* updatePreviewAndValidate(): the form is not drawn again.
SetField(op, c, value, widgets) ==
  LET r == deepSet(values, c.path, value) IN
  /\ values' = r.val
  /\ controls' = widgets
  /\ IF r.ok THEN update ELSE thrown
  /\ Handled
  /\ last' = Did(op, c.path, value, r.ok)
  /\ EditFrame

\* A checkbox's "change"
SetBoolean(c) ==
  /\ c \in controls
  /\ c.kind = "boolean"
  /\ SetField("boolean", c, JBool(c.shown = "false"),
              (controls \ {c}) \cup {[c EXCEPT !.shown = IF @ = "false" THEN "true" ELSE "false"]})

\* A number input's "input"
SetNumber(c, text) ==
  /\ c \in controls
  /\ c.kind = "number"
  /\ SetField("number", c, InputNumber(text), controls)

\* A text input's "input"
SetString(c, text) ==
  /\ c \in controls
  /\ c.kind = "string"
  /\ SetField("string", c, IF text = "" THEN Undef ELSE JStr(text), controls)

\* An Unset button's "click"
Unset(c) ==
  /\ c \in controls
  /\ c.kind = "unset"
  /\ values' = deepDelete(values, c.path)
  /\ update
  /\ Handled
  /\ last' = Did("unset", c.path, Undef, TRUE)
  /\ UNCHANGED controls
  /\ EditFrame

\* A handler that changes the container cur it read at c.path (or made, when
\* nothing was there) into next, stores it with deepSet and renders. cur is the
\* very object the tree holds, so the change is in the tree before deepSet
\* runs. No map or array of the documents above sits at the root path, where
\* deepSet would store the tree under its own key "undefined".
StoreContainer(op, c, next) ==
  LET r == CASE c.path # <<>> -> deepSet(values, c.path, next) IN
  /\ values' = r.val
  /\ IF r.ok
     THEN render(Written(schemas, r.val), activeSchemaName, activeOneOfIndex, r.val,
                 inlineOneOf, controls, pickerValue)
     ELSE thrown /\ UNCHANGED controls
  /\ Handled
  /\ last' = Did(op, c.path, next, r.ok)
  /\ EditFrame

\* deepGet(state.values, path) ?? {}
MapAt(path) == Coalesce(deepGet(values, path), EmptyObj)

\* "Add entry" and "Add extra property": the prompt answered with key
AddEntry(c, key) ==
  /\ c \in controls
  /\ c.kind \in {"addEntry", "addExtra"}
  /\ key # ""
  /\ IsObjectLike(MapAt(c.path))
  /\ StoreContainer(c.kind, c, SetProp(MapAt(c.path), key, defaultFor(c.node, formRoot)))

\* The key input's "change" of a map entry
RenameEntry(c, key) ==
  /\ c \in controls
  /\ c.kind = "renameEntry"
  /\ key # ""
  /\ key # c.key
  /\ IsObjectLike(MapAt(c.path))
  /\ StoreContainer("renameEntry", c,
                    DeleteProp(SetProp(MapAt(c.path), key, GetProp(MapAt(c.path), c.key)),
                               c.key))

\* "Remove" of a map entry or an extra property
RemoveEntry(c) ==
  /\ c \in controls
  /\ c.kind \in {"removeEntry", "removeExtra"}
  /\ IsObjectLike(MapAt(c.path))
  /\ StoreContainer(c.kind, c, DeleteProp(MapAt(c.path), c.key))

\* Array.isArray(deepGet(state.values, path)) ? deepGet(state.values, path) : []
ArrayAt(path) == IF IsArray(deepGet(values, path)) THEN deepGet(values, path) ELSE JArr(<<>>)

\* "Add item"
AddItem(c) ==
  /\ c \in controls
  /\ c.kind = "addItem"
  /\ Len(ArrayAt(c.path).v) < MaxItems
  /\ StoreContainer("addItem", c,
                    [ArrayAt(c.path) EXCEPT !.v = Append(@, defaultFor(c.node, formRoot))])

\* "Remove" of an item: curArr.splice(idx, 1)
RemoveItem(c) ==
  /\ c \in controls
  /\ c.kind = "removeItem"
  /\ StoreContainer("removeItem", c,
                    [ArrayAt(c.path) EXCEPT !.v =
                       IF TokenIndex(c.key) < Len(@) THEN Without(@, TokenIndex(c.key) + 1)
                       ELSE @])

(* --------------------------- debounced recompute ----------------------- *)

MaxShown == 25

\* errs.slice(0, 25)
Shown(errs) == SubSeq(errs, 1, IF Len(errs) < MaxShown THEN Len(errs) ELSE MaxShown)

\* The body of updatePreviewAndValidate gets to its end in this state.
Runnable == activeSchemaName # NoName /\ activeSchemaName \in Names(schemas)

\* What the body of updatePreviewAndValidate puts on the page in this state.
Recomputed ==
  LET schema == SchemaOf(schemas, activeSchemaName)
      out == buildFinalOutput(values)
  IN [preview |-> stringify(Coalesce(out, EmptyObj), ""),
      errors |-> Shown(validateAgainst(schema, pickRootSchema(schema, activeOneOfIndex),
                                       out, "$", inlineOneOf))]

\* A pending timeout of the debounced updatePreviewAndValidate comes due.
TimeoutFires ==
  /\ timers > 0
  /\ timers' = timers - 1
  /\ runs' = runs + 1

\* The timeout fires and the body of updatePreviewAndValidate runs.
Recompute ==
  /\ TimeoutFires
  /\ IF Runnable
     THEN /\ preview' = Recomputed.preview
          /\ errors' = Recomputed.errors
          /\ exportEnabled' = TRUE
     ELSE UNCHANGED <<preview, errors, exportEnabled>>
  /\ last' = Did("recompute", <<>>, Undef, Runnable)
  /\ UNCHANGED <<state, dom, loads, scheduled, events, probe>>

(* -------------------------------- export ------------------------------ *)

\* jsonPreview.textContent || "{}"
exportText == IF preview = "" THEN "{}" ELSE preview

\* copyBtn "click", on the page without a #codeText node, where the handler is
\* bound: the text is read at the click, and the clipboard takes it or refuses.
Copy(ok) ==
  /\ exportEnabled
  /\ Handled
  /\ last' = Did("copy", <<>>, JStr(exportText), ok)
  /\ UNCHANGED <<state, dom, shown, timers, scheduled, runs>>

\* downloadBtn "click": the blob holds the text read at the click.
Download ==
  /\ exportEnabled
  /\ Handled
  /\ last' = Did("download", <<>>, JStr(exportText), TRUE)
  /\ UNCHANGED <<state, dom, shown, timers, scheduled, runs>>

\* The steps of a session whose loads take their files from batches.
NextOn(batches) ==
  \/ \E batch \in batches : LoadStart(batch)
  \/ \E k \in DOMAIN loads : LoadAbort(k)
  \/ \E k \in DOMAIN loads : LoadStep(k)
  \/ \E k \in DOMAIN loads : LoadFinish(k)
  \/ \E name \in FileNames : SelectSchema(name)
  \/ Defaults
  \/ Clear
  \/ Reset
  \/ \E i \in 0..(pickerCount - 1) : DocVariant(i)
  \/ \E c \in controls : \E i \in 0..(c.n - 1) : InlineVariant(c, i)
  \/ \E c \in controls : SetBoolean(c)
  \/ \E c \in controls : \E text \in NumberInputs : SetNumber(c, text)
  \/ \E c \in controls : \E text \in TextInputs : SetString(c, text)
  \/ \E c \in controls : Unset(c)
  \/ \E c \in controls : \E key \in PromptInputs : AddEntry(c, key)
  \/ \E c \in controls : \E key \in PromptInputs : RenameEntry(c, key)
  \/ \E c \in controls : RemoveEntry(c)
  \/ \E c \in controls : AddItem(c)
  \/ \E c \in controls : RemoveItem(c)
  \/ \E ok \in BOOLEAN : Copy(ok)
  \/ Download
  \/ Recompute

Next == NextOn(Batches)

Spec == Init /\ [][Next]_vars

SessionNext == NextOn(SessionBatches)

SessionSpec == Init /\ [][SessionNext]_vars

\* Sessions of loads, a file selection being made again while earlier reads
\* are awaited, with the schema select and the debounced recompute.
OverlapNext ==
  \/ \E batch \in Batches : LoadStartAmong(batch, MaxOverlap)
  \/ \E k \in DOMAIN loads : LoadAbort(k)
  \/ \E k \in DOMAIN loads : LoadStep(k)
  \/ \E k \in DOMAIN loads : LoadFinish(k)
  \/ \E name \in FileNames : SelectSchema(name)
  \/ Recompute

OverlapSpec == Init /\ [][OverlapNext]_vars

\* Sessions on the schema whose default is an object, and on the two others.
SharingNext == NextOn(SharingBatches)

SharingSpec == Init /\ [][SharingNext]_vars

(* ------------------------------- the engine ---------------------------- *)

\* A root schema document and the nodes and values the engine functions are
\* called with on it, outside any session.
EngineRoot ==
  JObj(<<E("title", JStr("a")),
         E("type", JStr("object")),
         E("defs",
           JObj(<<E("x", JObj(<<E("title", JStr("X")), E("type", JStr("string"))>>)),
                  E("n", JObj(<<E("type", JStr("integer")), E("minimum", JNum(1))>>)),
                  E("a/b", JObj(<<E("type", JStr("boolean"))>>)),
                  E("o", JObj(<<E("properties", JObj(<<E("a", JObj(<<E("type", JStr("string"))>>))>>)),
                                E("required", JArr(<<JStr("a")>>))>>)),
                  E("p", JObj(<<E("properties", JObj(<<E("b", JObj(<<E("type", JStr("number"))>>)),
                                                       E("a", JObj(<<E("type", JStr("boolean"))>>))>>)),
                                E("required", JArr(<<JStr("b"), JStr("a")>>))>>)),
                  E("chain", JObj(<<E("$ref", JStr("#/defs/x")), E("description", JStr("d"))>>))>>))>>)

Ref(pointer, rest) == JObj(<<E("$ref", JStr(pointer))>> \o rest)

EngineNodes ==
  { Ref("#/defs/x", <<E("title", JStr("T"))>>),
    Ref("#/defs/chain", <<>>),
    Ref("#/defs/a~1b", <<>>),
    Ref("#//defs//x", <<E("description", JStr("d"))>>),
    Ref("#/defs/missing", <<E("type", JStr("boolean"))>>),
    Ref("#/title/length", <<E("type", JStr("boolean"))>>),
    Ref("other.json#/defs/x", <<E("type", JStr("integer")), E("minimum", JNum(1))>>),
    JObj(<<E("allOf", JArr(<<Ref("#/defs/o", <<>>), Ref("#/defs/p", <<>>)>>))>>),
    JObj(<<E("type", JStr("object")),
           E("allOf", JArr(<<JObj(<<E("title", JStr("L")), E("required", JArr(<<JStr("a")>>))>>),
                             JObj(<<E("title", JStr("M")),
                                    E("properties", JObj(<<E("a", JObj(<<E("type", JStr("string"))>>))>>)),
                                    E("required", JArr(<<JStr("a"), JStr("a")>>))>>)>>))>>),
    JObj(<<E("type", JStr("object")),
           E("properties", JObj(<<E("n", Ref("#/defs/n", <<>>)),
                                  E("s", JObj(<<E("type", JStr("string"))>>))>>)),
           E("required", JArr(<<JStr("n")>>))>>),
    JObj(<<E("type", JStr("object")),
           E("properties", JObj(<<E("n", Ref("#/defs/n", <<>>))>>)),
           E("required", JArr(<<JStr("constructor"), JStr("n")>>))>>),
    JObj(<<E("additionalProperties", JBool(FALSE))>>),
    JObj(<<E("additionalProperties", JObj(<<E("type", JStr("boolean"))>>)),
           E("items", JObj(<<E("type", JStr("string"))>>))>>),
    JObj(<<E("type", JStr("null"))>>),
    JObj(<<E("type", JArr(<<JStr("integer"), JStr("null")>>)), E("minimum", JNum(1)),
           E("properties", EmptyObj)>>),
    JObj(<<E("items", JObj(<<E("type", JStr("string"))>>)), E("enum", JArr(<<JNum(1)>>))>>),
    JObj(<<E("enum", JArr(<<JNum(1), JStr("a")>>))>>),
    JObj(<<E("enum", JArr(<<JStr("a"), JNum(1)>>))>>),
    JObj(<<E("type", JStr("number")), E("enum", JArr(<<>>))>>),
    JObj(<<E("type", JStr("boolean"))>>),
    JObj(<<E("type", JStr("string")), E("default", JNull)>>),
    JObj(<<E("oneOf", JArr(<<JObj(<<E("type", JStr("boolean"))>>)>>)),
           E("enum", JArr(<<JStr("a")>>))>>),
    EmptyObj }

EngineValues ==
  { Undef, EmptyObj, JStr("a"), JBool(TRUE), JNum(0), JArr(<<>>),
    JObj(<<E("n", JNum(0))>>), JObj(<<E("n", JNum(1))>>),
    JObj(<<E("a", JStr("a"))>>), JObj(<<E("a", JStr("a")), E("b", JNum(1))>>) }

\* A call that is about to be made, and the call made with what it returned.
Input(node, value) == [op |-> "input", node |-> node, value |-> value, out |-> Undef]
Returned(op, out) == [probe EXCEPT !.op = op, !.out = out]

EngineInit ==
  /\ Fresh
  /\ probe \in {Input(node, value) : node \in EngineNodes, value \in EngineValues}

\* The session stands still while the engine is called.
Call(op, out) ==
  /\ probe.op = "input"
  /\ probe' = Returned(op, out)
  /\ UNCHANGED <<state, dom, shown, timers, loads, last, scheduled, runs, events>>

CallResolveSchema == Call("resolveSchema", resolveSchema(EngineRoot, probe.node))

\* renderNode, lines 270-277: the node the form is drawn from
CallCompose == Call("compose", composed(EngineRoot, resolveSchema(EngineRoot, probe.node)))

CallInferType == Call("inferType", inferType(probe.node))

CallDefaultFor == Call("defaultFor", defaultFor(probe.node, EngineRoot))

\* errs after validateAgainst(schemaRoot, node0, value, "$", errs), no choice of
\* a field-level variant being recorded
CallValidateAgainst ==
  Call("validateAgainst", validateAgainst(EngineRoot, probe.node, probe.value, "$", EmptyMap))

EngineNext ==
  \/ CallResolveSchema
  \/ CallCompose
  \/ CallInferType
  \/ CallDefaultFor
  \/ CallValidateAgainst

EngineSpec == EngineInit /\ [][EngineNext]_vars

(* ---------------------------- variant selection ------------------------ *)

\* The pathStr validateAgainst has built when it stands at the value-tree path
\* of a widget: "$", then ".key" below an object and "[index]" below an array.
\* The extra properties kept under the bucket key sit beside the named ones in
\* the output the validator walks.
RECURSIVE locationOf(_, _, _)
locationOf(cur, path, pathStr) ==
  IF path = <<>> THEN pathStr
  ELSE locationOf(IF IsNullish(cur) THEN Undef ELSE GetProp(cur, Head(path)),
                  Tail(path),
                  IF Head(path) = BucketKey THEN pathStr
                  ELSE IF IsArray(cur) THEN pathStr \o "[" \o Head(path) \o "]"
                  ELSE pathStr \o "." \o Head(path))

\* The field-level oneOf selects of the form whose path has a recorded choice.
Recorded == {c \in controls : c.kind = "inlineOneOf" /\ pathKey(c.path) \in DOMAIN inlineOneOf}

\* The recorded choices, by the location of their select.
RecordedByLocation ==
  [ps \in {locationOf(values, c.path, "$") : c \in Recorded} |->
     inlineOneOf[pathKey((CHOOSE c \in Recorded : locationOf(values, c.path, "$") = ps).path)]]

\* C1: once a field-level picker has recorded a branch for a location, a
\* validation run checks the value there against that branch and no other:
\* the violations a recompute publishes are those of a validation that takes,
\* at every location with a recorded choice, the recorded branch.
C1_ValidatesRecordedBranch ==
  (last.op = "recompute" /\ last.ok) =>
    errors = Shown(validateAgainst(SchemaOf(schemas, activeSchemaName),
                                   pickRootSchema(SchemaOf(schemas, activeSchemaName),
                                                  activeOneOfIndex),
                                   buildFinalOutput(values), "$", RecordedByLocation))

\* C2: right after a field-level oneOf branch is switched at a path, reading
\* that path in the value tree gives undefined, the empty root path included.
C2_SwitchLeavesUndefined ==
  last.op = "inlineOneOf" => deepGet(values, last.path) = Undef

\* C3: right after the document-level variant is changed, the value tree and
\* the field-level selection map are empty, whatever they held before.
C3_DocVariantClears ==
  last.op = "docVariant" => values = EmptyObj /\ inlineOneOf = EmptyMap

\* C3 witness: the document-level variant was changed while the value tree and
\* the field-level selection map both held something.
C3_Witness == last.op = "docVariant" /\ last.full

\* C4: right after the active schema changes (a load completes, another schema
\* is selected, the session is reset) the value tree is empty, no field-level
\* selection is recorded and the document-level index is 0.
C4_ActivationStartsEmpty ==
  ((last.op = "loadEnd" /\ last.ok) \/ last.op \in {"select", "reset"}) =>
    values = EmptyObj /\ inlineOneOf = EmptyMap /\ activeOneOfIndex = 0

\* C5: reading a path right after a field handler has set a value there with
\* deepSet gives that value back, whatever the path (the empty one included).
C5_GetAfterSet ==
  last.op \in {"boolean", "number", "string"} =>
    last.ok /\ deepGet(values, last.path) = last.val

(* ------------------------- defaults and serialize ---------------------- *)

\* C6: for every loaded schema, the value defaultFor(schema, schema) gives has
\* no violation against that schema, every variant selection being at 0.
C6_DefaultsAreValid ==
  \A i \in DOMAIN schemas :
     validateAgainst(schemas[i].doc, schemas[i].doc,
                     defaultFor(schemas[i].doc, schemas[i].doc), "$", EmptyMap) = <<>>

\* C7: serialize is idempotent on every value tree the editor reaches.
C7_SerializeIdempotent ==
  buildFinalOutput(buildFinalOutput(values)) = buildFinalOutput(values)

(* -------------------------------- loading ------------------------------ *)

\* The files of a batch that read and parse.
Loadable(files) == {files[i] : i \in {j \in DOMAIN files : FileOutcome(files[j]).kind = "ok"}}

\* C8: after a load that found a schema active, in which a file failed and
\* during which no other handler ran, every schema loaded before is still
\* loaded, and the active schema name, the value tree and the variant
\* selections are what the load found.
C8_FailedLoadKeepsSession ==
  (last.op = "loadEnd" /\ last.failed /\ last.alone /\ last.pre.active # NoName) =>
    /\ last.pre.names \subseteq Names(schemas)
    /\ activeSchemaName = last.pre.active
    /\ values = last.pre.values
    /\ inlineOneOf = last.pre.inline

\* C9: when the handler of a load has ended, no other handler having run
\* meanwhile, the loaded schemas are exactly the files of the batch that read
\* and parse, wherever the failing files stand in the batch.
C9_OtherFilesStillLoad ==
  (last.op = "loadEnd" /\ last.alone) => Names(schemas) = Loadable(last.files)

(* --------------------------------- export ------------------------------ *)

\* C11: the text a copy or a download exports is the pretty-printed
\* serialization of the value tree as it is at the click, also when the click
\* follows an edit at once.
C11_ExportIsSerializedTree ==
  (last.op \in {"copy", "download"} /\ last.ok) =>
    last.val = JStr(stringify(buildFinalOutput(values), ""))

(* -------------------------------- debounce ----------------------------- *)

\* The page shows what the body of updatePreviewAndValidate gives in this state.
Published == preview = Recomputed.preview /\ errors = Recomputed.errors

\* However many events scheduled it, at most one recompute is pending; after
\* the last event that scheduled one, exactly one is pending or has run; and
\* once it has run, the page shows the result of the state that event left.
OneRecomputeLastWins ==
  /\ timers <= 1
  /\ scheduled > 0 => timers + runs = 1
  /\ (scheduled > 0 /\ runs = 1 /\ Runnable) => Published

\* A pending timeout comes due: the only steps that count one timeout down
\* and one run up are those of Recompute.
FairSpec == SessionSpec /\ WF_<<timers, runs>>(TimeoutFires)

\* C10: a burst of events that each schedule the debounced recompute leads to
\* exactly one recompute, which publishes the preview and the violations of
\* the state the last event left; and once the events stop, the page comes to
\* show what an undebounced recompute after the last event would give.
C10_DebouncedRecompute ==
  /\ []OneRecomputeLastWins
  /\ (scheduled > 0 /\ Runnable) ~> (scheduled = 0 \/ ~Runnable \/ runs = 1)

\* C10 witness: a burst of two events or more was followed by its one
\* recompute, which published the state the last of them left.
C10_Witness ==
  /\ scheduled >= 2 /\ runs = 1 /\ timers = 0 /\ Runnable
  /\ last.op = "recompute"
  /\ values # EmptyObj

(* ----------------------------- effective node ------------------------- *)

\* C12: for a node carrying a non-empty allOf, and any value, validateAgainst
\* gives the violations of the value against the node the renderer draws the
\* form from: the merge of the node's resolved allOf branches.
C12_ValidatesEffectiveNode ==
  (probe.op = "validateAgainst" /\ NonEmptyArray(GetProp(probe.node, "allOf"))) =>
    probe.out = validateAgainst(EngineRoot,
                                composed(EngineRoot, resolveSchema(EngineRoot, probe.node)),
                                probe.value, "$", EmptyMap)

(* ------------------------------ references ----------------------------- *)

\* The member of a JSON value a pointer segment names: the value under a key
\* of an object, the element at an index of an array.
Member(j, tok) ==
  IF j.t = "obj" THEN Lookup(j.v, tok)
  ELSE IF j.t = "arr" /\ TokenIndex(tok) >= 0 /\ TokenIndex(tok) < Len(j.v)
  THEN j.v[TokenIndex(tok) + 1]
  ELSE Undef

\* The value of the document the segments of a pointer lead to, undefined
\* when they lead nowhere.
RECURSIVE targetOf(_, _)
targetOf(j, parts) ==
  IF parts = <<>> THEN j ELSE targetOf(Member(j, Head(parts)), Tail(parts))

\* The $ref of a node is internal: a string that starts with "#/".
InternalRef(node) ==
  /\ Lookup(node.v, "$ref").t = "str"
  /\ PointerStartsWithHashSlash(Lookup(node.v, "$ref").v)

\* The node the internal $ref of a node points at in the root schema.
Referenced(node) == targetOf(EngineRoot, PointerParts(Lookup(node.v, "$ref").v))

\* C13: for a node whose $ref starts with "#/" and points at a node of the
\* root schema, resolveSchema returns a node that holds, under every key
\* other than $ref, the local node's value when the local node has the key
\* and the referenced node's value otherwise, and no other key.
C13_LocalKeysOverlayTarget ==
  (probe.op = "resolveSchema" /\ InternalRef(probe.node) /\ Referenced(probe.node).t = "obj") =>
    /\ probe.out.t = "obj"
    /\ \A k \in (SeqToSet(Keys(probe.node.v)) \cup SeqToSet(Keys(Referenced(probe.node).v))
                  \cup SeqToSet(Keys(probe.out.v))) \ {"$ref"} :
          Lookup(probe.out.v, k) = IF HasKey(probe.node.v, k) THEN Lookup(probe.node.v, k)
                                   ELSE Lookup(Referenced(probe.node).v, k)

\* C13 witness: { "$ref": "#/defs/x", "title": "T" }, where #/defs/x is
\* { "title": "X", "type": "string" }, has been resolved.
C13_Witness ==
  /\ probe.op = "resolveSchema"
  /\ probe.node = Ref("#/defs/x", <<E("title", JStr("T"))>>)
  /\ Lookup(probe.out.v, "title") = JStr("T")
  /\ Lookup(probe.out.v, "type") = JStr("string")

\* The node without its $ref: its own local keys.
LocalKeys(node) == JObj(Remove(node.v, "$ref"))

\* C14: when the pointer of a node's internal $ref leads to nothing in the
\* root schema, resolveSchema returns the node as it is, and defaultFor and
\* validateAgainst return what they return for the node's own local keys.
C14_DanglingRefFallsBack ==
  (InternalRef(probe.node) /\ Referenced(probe.node) = Undef) =>
    /\ probe.op = "resolveSchema" => probe.out = probe.node
    /\ probe.op = "defaultFor" => probe.out = defaultFor(LocalKeys(probe.node), EngineRoot)
    /\ probe.op = "validateAgainst" =>
          probe.out = validateAgainst(EngineRoot, LocalKeys(probe.node), probe.value, "$", EmptyMap)

(* ---------------------------------- allOf ------------------------------ *)

\* The allOf branches of a node, each resolved.
Branches(node) ==
  [i \in DOMAIN GetProp(node, "allOf").v |->
     resolveSchema(EngineRoot, GetProp(node, "allOf").v[i])]

\* The value the last of the objects js that has key k holds under it.
LastHolding(js, k) ==
  LET holders == {i \in DOMAIN js : HasKey(js[i].v, k)} IN
  IF holders = {} THEN Undef
  ELSE Lookup(js[CHOOSE i \in holders : \A j \in holders : j <= i].v, k)

KeysOfAll(js) == UNION {SeqToSet(Keys(js[i].v)) : i \in DOMAIN js}

\* What each of the objects js holds under key k, empty where it holds
\* nothing.
Under(js, k, empty) ==
  [i \in DOMAIN js |-> IF HasKey(js[i].v, k) THEN Lookup(js[i].v, k) ELSE empty]

RECURSIVE Flat(_)
Flat(arrs) == IF arrs = <<>> THEN <<>> ELSE Head(arrs).v \o Flat(Tail(arrs))

FirstAt(items, x) == CHOOSE i \in DOMAIN items : items[i] = x /\ \A j \in 1..(i - 1) : items[j] # x

\* C15: the node composed from a non-empty allOf holds the keys of its
\* resolved branches; under a key other than properties and required the value
\* of the last branch that has the key; under properties every property name
\* of every branch with the schema of the last branch that declares it; under
\* required the names of all branches' required lists, each once, in the
\* order of their first occurrence.
C15_AllOfMerge ==
  (probe.op = "compose" /\ NonEmptyArray(GetProp(probe.node, "allOf"))
     /\ ~HasKey(probe.node.v, "$ref")) =>
    LET bs == Branches(probe.node)
        m == probe.out
        ps == Under(bs, "properties", EmptyObj)
        rs == Flat(Under(bs, "required", JArr(<<>>)))
        req == Lookup(m.v, "required").v
    IN /\ SeqToSet(Keys(m.v)) = KeysOfAll(bs)
       /\ \A k \in KeysOfAll(bs) \ {"properties", "required"} : Lookup(m.v, k) = LastHolding(bs, k)
       /\ "properties" \in KeysOfAll(bs) =>
            /\ SeqToSet(Keys(Lookup(m.v, "properties").v)) = KeysOfAll(ps)
            /\ \A name \in KeysOfAll(ps) :
                  Lookup(Lookup(m.v, "properties").v, name) = LastHolding(ps, name)
       /\ "required" \in KeysOfAll(bs) =>
            /\ SeqToSet(req) = SeqToSet(rs)
            /\ \A i, j \in DOMAIN req : i < j => FirstAt(rs, req[i]) < FirstAt(rs, req[j])

\* C15 witness: {properties: {a: string}, required: [a]} and {properties:
\* {b: number, a: boolean}, required: [b, a]}, each behind a $ref, have been
\* merged: required is [a, b], and a is the boolean of the later branch.
C15_Witness ==
  /\ probe.op = "compose"
  /\ probe.node = JObj(<<E("allOf", JArr(<<Ref("#/defs/o", <<>>), Ref("#/defs/p", <<>>)>>))>>)
  /\ Lookup(probe.out.v, "required") = JArr(<<JStr("a"), JStr("b")>>)
  /\ Lookup(Lookup(probe.out.v, "properties").v, "a") = JObj(<<E("type", JStr("boolean"))>>)
  /\ HasKey(Lookup(probe.out.v, "properties").v, "b")

(* ------------------------------- inferType ----------------------------- *)

\* The kinds of value a schema node can stand for.
Kinds == {JStr("object"), JStr("array"), JStr("boolean"), JStr("number"), JStr("integer"),
          JStr("string")}

\* The decision order, on the keys a node has.
KindByKeys(node) ==
  IF HasKey(node.v, "type")
  THEN (IF IsArray(Lookup(node.v, "type")) THEN Member(Lookup(node.v, "type"), "0")
        ELSE Lookup(node.v, "type"))
  ELSE IF HasKey(node.v, "properties") \/ HasKey(node.v, "additionalProperties")
  THEN JStr("object")
  ELSE IF HasKey(node.v, "items") THEN JStr("array")
  ELSE IF HasKey(node.v, "enum")
  THEN (IF Member(Lookup(node.v, "enum"), "0").t = "num" THEN JStr("number") ELSE JStr("string"))
  ELSE JStr("string")

\* C16: inferType gives what the decision order gives on the node's keys,
\* first match winning: the explicit type (the first element of a list), else
\* object when properties or additionalProperties is present, else array when
\* items is present, else by the first literal of a present enum, else string.
C16_InferTypeOrder ==
  probe.op = "inferType" => probe.out = KindByKeys(probe.node)

\* C17: the kind inferType returns for a node is one of object, array,
\* boolean, number, integer, string.
C17_InferTypeIsAKind ==
  probe.op = "inferType" => probe.out \in Kinds

(* ---------------------------- required fields -------------------------- *)

Count(items, x) == Cardinality({i \in DOMAIN items : items[i] = x})

IsRequired(loc, name) == loc \o "." \o name \o " is required"

\* The violations of the members of an object value against their own
\* schemas: those of each declared property the value has, in the order of
\* declaration, then, where additionalProperties is a schema, those of each
\* member that is not declared.
RECURSIVE OfDeclared(_, _, _)
OfDeclared(declared, value, loc) ==
  IF declared = <<>> THEN <<>>
  ELSE (IF HasKey(value.v, Head(declared).k)
        THEN validateAgainst(EngineRoot, Head(declared).v, Lookup(value.v, Head(declared).k),
                             loc \o "." \o Head(declared).k, EmptyMap)
        ELSE <<>>)
       \o OfDeclared(Tail(declared), value, loc)

RECURSIVE OfUndeclared(_, _, _, _)
OfUndeclared(members, declared, ap, loc) ==
  IF members = <<>> THEN <<>>
  ELSE (IF HasKey(declared, Head(members).k) THEN <<>>
        ELSE validateAgainst(EngineRoot, ap, Head(members).v,
                             loc \o "." \o Head(members).k, EmptyMap))
       \o OfUndeclared(Tail(members), declared, ap, loc)

\* C18: validating an object value against a node of type object reports,
\* for each name in required that the value lacks, '<location>.<name> is
\* required' exactly once, and for a name the value has not at all; a member
\* the value lacks brings no violation of its own schema; and the other
\* violations are those of the members the value has, under
\* '<location>.<name>'.
C18_RequiredReportedOnce ==
  (probe.op = "validateAgainst" /\ probe.value.t = "obj"
     /\ ~HasKey(probe.node.v, "$ref") /\ ~HasKey(probe.node.v, "oneOf")
     /\ Lookup(probe.node.v, "type") = JStr("object")) =>
    LET node == probe.node
        declared == IF HasKey(node.v, "properties") THEN Lookup(node.v, "properties").v ELSE <<>>
        required == IF HasKey(node.v, "required") THEN Lookup(node.v, "required").v ELSE <<>>
        ap == Lookup(node.v, "additionalProperties")
        names == {required[i].v : i \in DOMAIN required}
    IN /\ \A name \in names :
            Count(probe.out, IsRequired("$", name)) = IF HasKey(probe.value.v, name) THEN 0 ELSE 1
       /\ SelectSeq(probe.out, LAMBDA e : e \notin {IsRequired("$", name) : name \in names})
            = OfDeclared(declared, probe.value, "$")
              \o (IF ap.t = "obj" THEN OfUndeclared(probe.value.v, declared, ap, "$") ELSE <<>>)

(* ------------------------------- serialize ----------------------------- *)

\* The objects of a value tree: the tree where it is one, and those below it.
RECURSIVE ObjectsIn(_)
ObjectsIn(j) ==
  IF j.t = "obj"
  THEN {j} \cup UNION {ObjectsIn(j.v[i].v) : i \in DOMAIN j.v}
  ELSE IF j.t = "arr"
  THEN UNION {ObjectsIn(j.v[i]) : i \in DOMAIN j.v}
  ELSE {}

\* No absent value anywhere in a value: no member and no element is undefined.
RECURSIVE NoUndefined(_)
NoUndefined(j) ==
  /\ j.t \notin {"undef", "hole"}
  /\ j.t = "obj" => \A i \in DOMAIN j.v : NoUndefined(j.v[i].v)
  /\ j.t = "arr" => \A i \in DOMAIN j.v : NoUndefined(j.v[i])

\* The entries of the bucket of an object that hold a value.
BucketOf(obj) ==
  IF Lookup(obj.v, BucketKey).t \in {"obj", "arr"}
  THEN SelectSeq(Entries(Lookup(obj.v, BucketKey)), LAMBDA e : e.v.t # "undef")
  ELSE <<>>

\* C19: for every object of the value tree, the output of buildFinalOutput
\* holds under a key of the bucket that has a value the serialized value of
\* the bucket, also where the object has an entry of its own under that key;
\* under any other key but the reserved one the serialized value of the
\* object's own entry, where it has a value; and nothing else. No undefined
\* value is anywhere in the output of the tree.
C19_SerializeMergesBucket ==
  /\ \A obj \in ObjectsIn(values) :
        LET out == buildFinalOutput(obj) IN
        \A k \in SeqToSet(Keys(obj.v)) \cup SeqToSet(Keys(BucketOf(obj)))
                 \cup SeqToSet(Keys(out.v)) :
           Lookup(out.v, k) =
             IF HasKey(BucketOf(obj), k) THEN buildFinalOutput(Lookup(BucketOf(obj), k))
             ELSE IF k # BucketKey /\ Lookup(obj.v, k).t # "undef"
             THEN buildFinalOutput(Lookup(obj.v, k))
             ELSE Undef
  /\ NoUndefined(buildFinalOutput(values))

\* C19 witness: the tree has the named property s and, in its bucket, an
\* extra property s with another value, which is the one the output holds.
C19_Witness ==
  /\ HasKey(values.v, "s")
  /\ HasKey(BucketOf(values), "s")
  /\ Lookup(values.v, "s").t # "undef"
  /\ Lookup(values.v, "s") # Lookup(BucketOf(values), "s")
  /\ Lookup(buildFinalOutput(values).v, "s") = Lookup(BucketOf(values), "s")

(* ------------------------------- synthesize ---------------------------- *)

\* The names a node both declares under properties and lists in required.
RequiredDeclared(node) ==
  IF HasKey(node.v, "properties") /\ HasKey(node.v, "required")
  THEN {k \in SeqToSet(Keys(Lookup(node.v, "properties").v)) :
          JStr(k) \in SeqToSet(Lookup(node.v, "required").v)}
  ELSE {}

\* C20: defaultFor returns, by the first rule that applies to the resolved
\* node: its default as it stands; else the default of its first oneOf
\* branch; else its first enum element; else, by its inferred type, for an
\* object exactly the properties both declared and required, each with its own
\* default, for an array the empty sequence, for a boolean false, for a number
\* or an integer its minimum if it has one and 0 if not, for a string the
\* empty string. The call leaves the value tree and the variant selections as
\* they were.
C20_SynthesizeByFirstRule ==
  probe.op = "defaultFor" =>
    LET node == resolveSchema(EngineRoot, probe.node)
        kind == inferType(node)
        out == probe.out
    IN /\ IF HasKey(node.v, "default") THEN out = Lookup(node.v, "default")
          ELSE IF HasKey(node.v, "oneOf") /\ Lookup(node.v, "oneOf").v # <<>>
          THEN out = defaultFor(Lookup(node.v, "oneOf").v[1], EngineRoot)
          ELSE IF HasKey(node.v, "enum") /\ Lookup(node.v, "enum").v # <<>>
          THEN out = Lookup(node.v, "enum").v[1]
          ELSE /\ kind = JStr("object") =>
                    /\ out.t = "obj"
                    /\ SeqToSet(Keys(out.v)) = RequiredDeclared(node)
                    /\ \A k \in RequiredDeclared(node) :
                          Lookup(out.v, k) =
                            defaultFor(Lookup(Lookup(node.v, "properties").v, k), EngineRoot)
               /\ kind = JStr("array") => out = JArr(<<>>)
               /\ kind = JStr("boolean") => out = JBool(FALSE)
               /\ kind \in {JStr("number"), JStr("integer")} =>
                    out = IF HasKey(node.v, "minimum") THEN Lookup(node.v, "minimum") ELSE JNum(0)
               /\ kind = JStr("string") => out = JStr("")
       /\ values = EmptyObj
       /\ inlineOneOf = EmptyMap

\* C20 witness: the default of {type: object, properties: {n: {$ref:
\* #/defs/n}, s: {type: string}}, required: [n]} has been synthesized: n is
\* the minimum of #/defs/n, and the optional s is left out.
C20_Witness ==
  /\ probe.op = "defaultFor"
  /\ HasKey(probe.node.v, "properties")
  /\ HasKey(Lookup(probe.node.v, "properties").v, "s")
  /\ probe.out = JObj(<<E("n", JNum(1))>>)

(* ---------------------------- the active schema ------------------------ *)

\* C22: in every state a handler or the debounced recompute can run in, the
\* states between the awaited reads of a load included, the active schema
\* name is null or a key of the schema map.
C22_ActiveSchemaIsLoaded ==
  activeSchemaName = NoName \/ activeSchemaName \in Names(schemas)

(* --------------------------- the engine's descent ---------------------- *)

\* Schema documents whose $ref pointers lead back to where they stand: a
\* oneOf branch that refers to the node it is a branch of, and a required
\* property that refers to the object it is a property of.
LoopOneOf ==
  JObj(<<E("$ref", JStr("#/defs/x")),
         E("defs", JObj(<<E("x", JObj(<<E("oneOf", JArr(<<Ref("#/defs/x", <<>>)>>))>>))>>))>>)
LoopRequired ==
  JObj(<<E("$ref", JStr("#/defs/o")),
         E("defs",
           JObj(<<E("o", JObj(<<E("type", JStr("object")),
                                E("properties", JObj(<<E("a", Ref("#/defs/o", <<>>))>>)),
                                E("required", JArr(<<JStr("a")>>))>>))>>))>>)

\* The calls one engine run may make of the function it runs.
MaxCalls == 8

\* The calls defaultFor(node0, schemaRoot) makes of itself: on the first
\* oneOf branch (line 666), or on each declared property that is required
\* (line 675).
defaultForCallsOnRef(schemaRoot, node0) ==
  IF HasKey(node0.v, "$ref") THEN <<[node |-> node0, value |-> Undef]>> ELSE <<>>

defaultForCalls(schemaRoot, node0) ==
  LET node == resolveSchema(schemaRoot, node0)
      oneOf == GetProp(node, "oneOf")
      props == OrElse(GetProp(node, "properties"), EmptyObj)
      req == Iterate(OrElse(GetProp(node, "required"), JArr(<<>>)))
      wanted == SelectSeq(Entries(props), LAMBDA e : \E i \in DOMAIN req : req[i] = JStr(e.k))
  IN IF GetProp(node, "default").t # "undef" THEN <<>>
     ELSE IF NonEmptyArray(oneOf) THEN <<[node |-> GetProp(oneOf, "0"), value |-> Undef]>>
     ELSE IF NonEmptyArray(GetProp(node, "enum")) THEN <<>>
     ELSE IF inferType(node) = JStr("object")
     THEN [i \in DOMAIN wanted |-> [node |-> wanted[i].v, value |-> Undef]]
     ELSE <<>>

\* The calls validateAgainst(schemaRoot, node0, value, pathStr, errs) makes of
\* itself: on the chosen oneOf branch with the same value (line 721), on each
\* declared property the value has (line 742), on each other member where
\* additionalProperties is a schema (line 750), on each item (line 766).
validateAgainstCalls(schemaRoot, node0, value) ==
  LET node == resolveSchema(schemaRoot, node0)
      oneOf == GetProp(node, "oneOf")
      type == inferType(node)
      props == OrElse(GetProp(node, "properties"), EmptyObj)
      ap == GetProp(node, "additionalProperties")
      present == SelectSeq(Entries(props), LAMBDA e : GetProp(value, e.k).t # "undef")
      others == SelectSeq(Entries(value), LAMBDA e : ~Truthy(GetProp(props, e.k)))
      elements == SelectSeq(value.v, LAMBDA e : e.t # "hole")
  IN IF NonEmptyArray(oneOf)
     THEN <<[node |-> GetProp(oneOf, ToString(validateBranch(EmptyMap, "$", Len(oneOf.v)))),
             value |-> value]>>
     ELSE IF value.t = "undef" THEN <<>>
     ELSE IF type = JStr("object")
     THEN IF value.t # "obj" THEN <<>>
          ELSE [i \in DOMAIN present |->
                  [node |-> present[i].v, value |-> GetProp(value, present[i].k)]]
               \o (IF Truthy(ap) /\ IsObjectLike(ap)
                   THEN [i \in DOMAIN others |->
                           [node |-> resolveSchema(schemaRoot, ap), value |-> others[i].v]]
                   ELSE <<>>)
     ELSE IF type = JStr("array")
     THEN IF IsArray(value) /\ Truthy(GetProp(node, "items"))
          THEN [i \in DOMAIN elements |-> [node |-> GetProp(node, "items"), value |-> elements[i]]]
          ELSE <<>>
     ELSE <<>>

\* The calls a call of fn on node and value makes of fn. resolveSchema calls
\* jsonPointerGet once and never itself.
callsOf(fn, schemaRoot, node, value) ==
  CASE fn = "resolveSchema" -> <<>>
    [] fn = "defaultFor" -> defaultForCalls(schemaRoot, node)
    [] fn = "validateAgainst" -> validateAgainstCalls(schemaRoot, node, value)

\* The runs of the engine that are followed call by call: the function, the
\* root schema, and the node and the value of the first call.
DescentRoots == {EngineRoot, LoopOneOf, LoopRequired}
DescentNodes(schemaRoot) ==
  IF schemaRoot = EngineRoot THEN EngineNodes \cup {EngineRoot} ELSE {schemaRoot}
DescentValues ==
  { Undef, EmptyObj, JObj(<<E("n", JNum(0))>>), JArr(<<JStr("a")>>),
    JObj(<<E("a", JObj(<<E("a", JStr("a"))>>))>>) }

\* A run: the calls still to be made, the first of them next. In a run,
\* events counts the calls made.
Run(fn, schemaRoot, node, value) ==
  [op |-> "run", fn |-> fn, root |-> schemaRoot,
   pending |-> <<[node |-> node, value |-> value]>>]

DescentInit ==
  /\ Fresh
  /\ probe \in {Run(fn, schemaRoot, node, value) :
                  fn \in {"resolveSchema", "defaultFor", "validateAgainst"},
                  schemaRoot \in DescentRoots,
                  node \in UNION {DescentNodes(r) : r \in DescentRoots},
                  value \in DescentValues}
  /\ probe.pending[1].node \in DescentNodes(probe.root)

\* The next pending call of a run of fn is made: it returns once the calls
\* it makes itself have returned.
Descend(fn) ==
  /\ probe.op = "run"
  /\ probe.fn = fn
  /\ probe.pending # <<>>
  /\ events < MaxCalls
  /\ events' = events + 1
  /\ probe' = [probe EXCEPT
                 !.pending = callsOf(fn, probe.root, Head(@).node, Head(@).value) \o Tail(@)]
  /\ UNCHANGED <<state, dom, shown, timers, loads, last, scheduled, runs>>

DescentNext ==
  \/ Descend("resolveSchema")
  \/ Descend("defaultFor")
  \/ Descend("validateAgainst")

\* A pending call is made, whichever calls it makes in turn.
CallMade ==
  /\ probe.op = "run"
  /\ probe.pending # <<>>
  /\ events < MaxCalls
  /\ events' = events + 1

\* The engine is synchronous code: a call that is pending is made, so a run
\* comes to its end when it has one.
DescentSpec == DescentInit /\ [][DescentNext]_vars /\ WF_events(CallMade)

\* The internal $ref pointers that stand in a value.
RECURSIVE RefsIn(_)
RefsIn(j) ==
  IF j.t = "obj"
  THEN (IF InternalRef(j) THEN {Lookup(j.v, "$ref").v} ELSE {})
       \cup UNION {RefsIn(j.v[i].v) : i \in DOMAIN j.v}
  ELSE IF j.t = "arr" THEN UNION {RefsIn(j.v[i]) : i \in DOMAIN j.v}
  ELSE {}

\* The pointers that stand in the nodes the given pointers point at.
RefsBehind(schemaRoot, pointers) ==
  UNION {RefsIn(targetOf(schemaRoot, PointerParts(p))) : p \in pointers}

\* The pointers reached from those of a set by following pointers, one step or more.
RECURSIVE RefsReached(_, _, _)
RefsReached(schemaRoot, frontier, seen) ==
  IF RefsBehind(schemaRoot, frontier) \subseteq seen THEN seen
  ELSE RefsReached(schemaRoot, RefsBehind(schemaRoot, frontier) \ seen,
                   seen \cup RefsBehind(schemaRoot, frontier))

\* No $ref pointer of the schema leads back to itself.
NoRefCycle(schemaRoot) ==
  \A p \in RefsIn(schemaRoot) : p \notin RefsReached(schemaRoot, {p}, {})

RunReturned == probe.pending = <<>>

\* C21: a run of resolveSchema, defaultFor or validateAgainst on a schema
\* whose $ref pointers form no cycle, with a finite value, comes to its end:
\* a run that does not is one on a schema in which a $ref leads back to a
\* node under way.
C21_TerminatesWithoutRefCycle ==
  [](NoRefCycle(probe.root) => <>RunReturned)

\* C21 witness: a run of validateAgainst on a schema without a $ref cycle
\* has returned after a call of itself behind a $ref.
C21_Witness ==
  /\ probe.op = "run"
  /\ probe.fn = "validateAgainst"
  /\ NoRefCycle(probe.root)
  /\ probe.pending = <<>>
  /\ events >= 2

(* ----------------------------- overlapping loads ----------------------- *)

\* C23: when a load was started while an earlier one was awaiting a read,
\* both have ended and only loads have run since the later one started, the
\* schemas loaded are the files of the later load that parsed, and the
\* active schema is one of them.
C23_LastLoadWins ==
  (last.op = "loadEnd" /\ loads = <<>> /\ last.over /\ last.only) =>
    /\ Names(schemas) = Loadable(last.recent)
    /\ Loadable(last.recent) # {} => activeSchemaName \in Loadable(last.recent)

(* ------------------------ the schema and the value tree ---------------- *)

\* C24: whatever the editor has done to the value tree, every loaded schema
\* document is the document its file was parsed to, and the value tree a
\* click on Defaults leaves is the one synthesized from that document, as
\* it was the first time.
C24_EditsLeaveSchemaAlone ==
  /\ \A i \in DOMAIN schemas : schemas[i].doc = FileOutcome(schemas[i].name).value
  /\ last.op = "defaults" =>
       values = defaultFor(pickRootSchema(FileOutcome(activeSchemaName).value, activeOneOfIndex),
                           FileOutcome(activeSchemaName).value)

====
